---- MODULE Spec2Model ----
(***************************************************************************)
(* A model of the policy evaluation stack: the signature verifier          *)
(* (policy-fetcher), the precompiled policy loader (policy-server), the    *)
(* Kubernetes capability layer with its caches and the host-capability bus *)
(* of the context-aware snapshot builder (policy-evaluator), and the       *)
(* record/replay proxy (kwctl).                                            *)
(*                                                                         *)
(* The components do not share state, so each has its own specification    *)
(* over its own variables; the other components' variables are held at     *)
(* their idle value.                                                       *)
(***************************************************************************)
EXTENDS Integers, Sequences, FiniteSets, TLC

VARIABLES
    \* ---- signature verifier (policy-fetcher/src/verify/mod.rs)
    verification_config,   \* the LatestVerificationConfig handed to verify
    trusted_layers,        \* the trusted SignatureLayers of the image
    verify_result,         \* NotCalled before the call, then the VerifyResult
    policy,                \* the Policy handed to verify_local_file_checksum
    manifest,              \* what the registry answers for the verified digest
    checksum_result,       \* NotCalled, then the VerifyResult<()> of the call
    \* ---- sources configuration (policy-fetcher/src/sources.rs)
    raw_sources,           \* the RawSources read from the configuration
    sources_result,        \* NotCalled, then the SourceResult<Sources>
    \* ---- precompiled policy loader (policy-server/.../precompiled_policy.rs)
    cargo_pkg_version,     \* env!("CARGO_PKG_VERSION"), the running version
    wasm_module,           \* the module file: the metadata its bytes carry
    load_pc,               \* position of PrecompiledPolicy::new
    load_trace,            \* the steps new has performed, with their outcome
    load_result,           \* NotCalled, then the Result<PrecompiledPolicy>
    \* ---- Kubernetes capabilities (policy-evaluator/src/callback_handler)
    kube_resources,        \* Client.kube_resources: the discovery cache
    reflectors,            \* Client.reflectors: reflector id -> Reflector
    now,                   \* tokio::time::Instant::now()
    memo,                  \* the stores of the #[cached] functions
    memo_lock,             \* who holds the lock of each #[cached] store
    pc,                    \* position of each caller
    call,                  \* the capability call each caller is running
    ret,                   \* what each caller's call returned
    window,                \* history: per key, the last result Kubernetes
                           \* gave, its age, and the upstream calls made
                           \* for the key while it was younger than the TTL
    \* ---- callback channel (policy-evaluator/.../rego/context_aware.rs)
    bus,                   \* the requests buffered in the callback channel
    bus_open,              \* the receiver of the callback channel is alive
    handlers,              \* the requests the router took and has not answered
    guest,                 \* each guest's snapshot-building call
    reply,                 \* each guest's oneshot response channel
    \* ---- kwctl host capabilities (kwctl/src/callback_handler/mod.rs)
    host_capabilities_mode, \* PullAndRunSettings.host_capabilities_mode
    handler,               \* the CallbackHandler built by CallbackHandler::new
    journal,               \* the file of recorded exchanges, by request hash
    exchange               \* the last request the handler answered

verifyVars == <<verification_config, trusted_layers, verify_result>>
loadVars == <<cargo_pkg_version, wasm_module, load_pc, load_trace, load_result>>
checksumVars == <<policy, manifest, checksum_result>>
sourcesVars == <<raw_sources, sources_result>>
memoVars == <<memo, memo_lock, window>>
reflectorVars == <<reflectors, now>>
kubeVars == <<kube_resources, memoVars, reflectorVars, pc, call, ret>>

busVars == <<bus, bus_open, handlers, guest, reply>>
proxyVars == <<host_capabilities_mode, handler, journal, exchange>>
vars == <<verifyVars, checksumVars, sourcesVars, loadVars, kubeVars, busVars, proxyVars>>

\* What the actions of one component leave unchanged: the other components.
notVerifyVars == <<sourcesVars, checksumVars, loadVars, kubeVars, busVars, proxyVars>>
notLoadVars == <<sourcesVars, checksumVars, verifyVars, kubeVars, busVars, proxyVars>>
notKubeVars == <<sourcesVars, checksumVars, verifyVars, loadVars, busVars, proxyVars>>
notBusVars == <<sourcesVars, checksumVars, verifyVars, loadVars, kubeVars, proxyVars>>
notProxyVars == <<sourcesVars, checksumVars, verifyVars, loadVars, kubeVars, busVars>>
notChecksumVars == <<sourcesVars, verifyVars, loadVars, kubeVars, busVars, proxyVars>>
notSourcesVars == <<verifyVars, checksumVars, loadVars, kubeVars, busVars, proxyVars>>

\* The value of a result variable before the call has returned.
NotCalled == [tag |-> "none"]

\* Option<T>: None is the empty sequence, Some(x) the one-element sequence.
None == <<>>
Some(x) == <<x>>
IsSome(o) == o # None
Unwrap(o) == o[1]

(***************************************************************************)
(* Helpers on sequences.                                                   *)
(***************************************************************************)
SeqsUpTo(S, n) == UNION {[1..k -> S] : k \in 0..n}

RECURSIVE FilterSeq(_, _, _)
\* The elements of s, in order, whose index i satisfies keep[i].
FilterSeq(s, keep, i) ==
    IF i > Len(s) THEN <<>>
    ELSE IF keep[i] THEN <<s[i]>> \o FilterSeq(s, keep, i + 1)
         ELSE FilterSeq(s, keep, i + 1)

(***************************************************************************)
(*                    PRECOMPILED POLICY LOADER                            *)
(***************************************************************************)
MaxVer == 1       \* largest major / minor number of a version

Prereleases == {"", "rc1"}      \* Prerelease::EMPTY is ""
Builds == {"", "b1"}            \* BuildMetadata::EMPTY is ""

Versions ==
    [major : 0..MaxVer, minor : 0..MaxVer, patch : 0..1,
     pre : Prereleases, build : Builds]

\* semver's Ord for Version: major, minor, patch, then the pre-release (a
\* pre-release precedes the release), then the build metadata.
VersionLess(a, b) ==
    \/ a.major < b.major
    \/ a.major = b.major /\ a.minor < b.minor
    \/ a.major = b.major /\ a.minor = b.minor /\ a.patch < b.patch
    \/ a.major = b.major /\ a.minor = b.minor /\ a.patch = b.patch
       /\ a.pre # "" /\ b.pre = ""
    \/ a.major = b.major /\ a.minor = b.minor /\ a.patch = b.patch
       /\ a.pre = b.pre /\ a.build = "" /\ b.build # ""

\* The version with patch, pre-release and build removed.
SanitizedMutKeepPatch(v) ==
    [major |-> v.major, minor |-> v.minor, patch |-> v.patch, pre |-> "", build |-> ""]

Sanitized(v) ==
    [major |-> v.major, minor |-> v.minor, patch |-> 0, pre |-> "", build |-> ""]

\* lazy_static KUBEWARDEN_VERSION
KUBEWARDEN_VERSION == Sanitized(cargo_pkg_version)

ExecutionModes == {"kubewarden-wapc", "opa", "gatekeeper", "wasi"}
ProtocolVersions == {"V1", "Unknown"}

Metadatas ==
    [execution_mode : ExecutionModes,
     protocol_version : {None} \cup {Some(p) : p \in ProtocolVersions},
     minimum_kubewarden_version : {None} \cup {Some(v) : v \in Versions}]

DefaultMetadataMutOpa ==
    [execution_mode |-> "opa", protocol_version |-> None,
     minimum_kubewarden_version |-> None]

\* Metadata::default(): KubewardenWapc is the #[default] execution mode.
DefaultMetadata ==
    [execution_mode |-> "kubewarden-wapc", protocol_version |-> None,
     minimum_kubewarden_version |-> None]

\* has_minimum_kubewarden_version(metadata).is_ok()
HasMinimumKubewardenVersion(metadata) ==
    IF IsSome(metadata.minimum_kubewarden_version)
    THEN ~VersionLess(KUBEWARDEN_VERSION,
                      Sanitized(Unwrap(metadata.minimum_kubewarden_version)))
    ELSE TRUE

HasValidProtocolVersionMutAnyMode(metadata) ==
    metadata.protocol_version = Some("V1")

\* has_valid_protocol_version(metadata).is_ok()
HasValidProtocolVersion(metadata) ==
    IF metadata.execution_mode = "kubewarden-wapc"
    THEN metadata.protocol_version = Some("V1")
    ELSE TRUE

LoadIdle ==
    /\ cargo_pkg_version = [major |-> 0, minor |-> 0, patch |-> 0, pre |-> "", build |-> ""]
    /\ wasm_module = [metadata |-> None, contents |-> "wasm-a"]
    /\ load_pc = "idle"
    /\ load_trace = <<>>
    /\ load_result = NotCalled

\* The metadata new works with once it has been parsed.
LoadedMetadata ==
    IF IsSome(wasm_module.metadata) THEN Unwrap(wasm_module.metadata) ELSE DefaultMetadata

\* The bytes of the module file, and engine.precompile_module of them: the
\* compiled artifact is another sequence of bytes than the module.
ModuleContents == {"wasm-a", "wasm-b"}

PrecompileModule(policy_contents) == "precompiled(" \o policy_contents \o ")"

\* format!("{digest:x}") of the Sha256 of bytes: a different text for
\* different bytes.
Sha256LowerHex(bytes) == "lowerhex(sha256(" \o bytes \o "))"

NewPrecompiledPolicyMutDigestOfWasm(module) ==
    [tag |-> "Ok",
     precompiled_module |-> PrecompileModule(module.contents),
     execution_mode |-> (IF IsSome(module.metadata) THEN Unwrap(module.metadata)
                         ELSE DefaultMetadata).execution_mode,
     digest |-> Sha256LowerHex(module.contents)]

\* Ok(Self { precompiled_module, execution_mode, digest })
NewPrecompiledPolicy(module) ==
    [tag |-> "Ok",
     precompiled_module |-> PrecompileModule(module.contents),
     execution_mode |-> (IF IsSome(module.metadata) THEN Unwrap(module.metadata)
                         ELSE DefaultMetadata).execution_mode,
     digest |-> Sha256LowerHex(PrecompileModule(module.contents))]

LoadInputs ==
    /\ cargo_pkg_version \in Versions
    /\ wasm_module \in [metadata : {None} \cup {Some(m) : m \in Metadatas},
                        contents : ModuleContents]
    /\ load_pc = "read"
    /\ load_trace = <<>>
    /\ load_result = NotCalled

LoadStepMutGoesOn(step, ok, next) ==
    /\ load_trace' = Append(load_trace, [step |-> step, ok |-> ok])
    /\ load_pc' = next
    /\ load_result' =
         IF ~ok /\ load_result.tag # "Err"
         THEN [tag |-> "Err", error |-> step]
         ELSE IF next = "done" /\ load_result.tag # "Err"
         THEN NewPrecompiledPolicy(wasm_module)
         ELSE load_result
    /\ UNCHANGED <<cargo_pkg_version, wasm_module, notLoadVars>>

\* One step of new: it either fails, which ends new with that error, or
\* succeeds and new goes on with the step `next`.
LoadStep(step, ok, next) ==
    /\ load_trace' = Append(load_trace, [step |-> step, ok |-> ok])
    /\ IF ok
       THEN /\ load_pc' = next
            /\ load_result' =
                 IF next = "done"
                 THEN NewPrecompiledPolicy(wasm_module)
                 ELSE load_result
       ELSE /\ load_pc' = "done"
            /\ load_result' = [tag |-> "Err", error |-> step]
    /\ UNCHANGED <<cargo_pkg_version, wasm_module, notLoadVars>>

\* fs::read(wasm_module_path)?
LoadRead ==
    /\ load_pc = "read"
    /\ \E ok \in BOOLEAN : LoadStep("read", ok, "parse")

\* Metadata::from_contents(&policy_contents)? and unwrap_or_default()
LoadParse ==
    /\ load_pc = "parse"
    /\ \E ok \in BOOLEAN : LoadStep("parse", ok, "min_version")

\* has_minimum_kubewarden_version(&metadata)?
LoadCheckVersion ==
    /\ load_pc = "min_version"
    /\ LoadStep("min_version", HasMinimumKubewardenVersion(LoadedMetadata), "protocol")

\* has_valid_protocol_version(&metadata)?
LoadCheckProtocol ==
    /\ load_pc = "protocol"
    /\ LoadStep("protocol", HasValidProtocolVersion(LoadedMetadata), "precompile")

\* engine.precompile_module(&policy_contents)?
LoadPrecompile ==
    /\ load_pc = "precompile"
    /\ \E ok \in BOOLEAN : LoadStep("precompile", ok, "digest")

\* the Sha256 digest of the precompiled module, and Ok(Self {..})
LoadDigest ==
    /\ load_pc = "digest"
    /\ LoadStep("digest", TRUE, "done")

NextLoad ==
    \/ LoadRead
    \/ LoadParse
    \/ LoadCheckVersion
    \/ LoadCheckProtocol
    \/ LoadPrecompile
    \/ LoadDigest

(***************************************************************************)
(* Claims about the precompiled policy loader.                             *)
(***************************************************************************)
\* The outcome new recorded for `step`, for the steps it has performed.
StepOutcomes(step) ==
    {load_trace[i].ok : i \in {j \in 1..Len(load_trace) : load_trace[j].step = step}}

\* (maj, min) of the declared minimum version <= (major, minor) of the
\* running version, both taken from the versions as given.
MinimumAtMostRunning(minimum) ==
    \/ minimum.major < cargo_pkg_version.major
    \/ /\ minimum.major = cargo_pkg_version.major
       /\ minimum.minor <= cargo_pkg_version.minor

\* C3: the minimum-version check of load succeeds iff the declared minimum
\* (maj, min) is at most the running (major, minor); patch, pre-release and
\* build of both versions are ignored; no declared minimum always passes.
C3_MinimumVersionIffMajorMinor ==
    \A ok \in StepOutcomes("min_version") :
        ok <=> \/ LoadedMetadata.minimum_kubewarden_version = None
               \/ MinimumAtMostRunning(Unwrap(LoadedMetadata.minimum_kubewarden_version))

\* C3 witness: the check passed for a minimum with the running (major,
\* minor) and a higher patch, on a pre-release of the running version.
C3_Witness ==
    /\ StepOutcomes("min_version") = {TRUE}
    /\ IsSome(LoadedMetadata.minimum_kubewarden_version)
    /\ LET minimum == Unwrap(LoadedMetadata.minimum_kubewarden_version)
       IN /\ minimum.major = cargo_pkg_version.major
          /\ minimum.minor = cargo_pkg_version.minor
          /\ minimum.patch > cargo_pkg_version.patch
          /\ minimum.pre = "" /\ cargo_pkg_version.pre # ""

\* C4: the protocol-version check of load succeeds for a kubewarden-wapc
\* policy iff its protocol version is present and V1, and for the other
\* execution modes whatever the protocol version is.
C4_ProtocolVersionCheck ==
    \A ok \in StepOutcomes("protocol") :
        IF LoadedMetadata.execution_mode = "kubewarden-wapc"
        THEN ok <=> LoadedMetadata.protocol_version = Some("V1")
        ELSE ok

\* C18: new never returns a precompiled policy for a module that carries
\* no metadata: the load ends with an error, so no execution mode the module
\* did not declare is ever assigned to a policy.
C18_NoMetadataNeverLoads ==
    (load_pc = "done" /\ wasm_module.metadata = None) => load_result.tag = "Err"

\* C18 witness: a module without metadata was read and parsed, and the
\* load ended with the error of the protocol-version check.
C18_Witness ==
    /\ wasm_module.metadata = None
    /\ StepOutcomes("parse") = {TRUE}
    /\ load_result = [tag |-> "Err", error |-> "protocol"]

\* C20: the digest of a returned precompiled policy is the lowercase hex
\* SHA-256 of its precompiled_module, which is the compiled artifact and
\* not the bytes of the Wasm file, and its execution mode is the one the
\* metadata of the module declares.
C20_DigestOfArtifactAndDeclaredMode ==
    load_result.tag = "Ok" =>
        /\ load_result.digest = Sha256LowerHex(load_result.precompiled_module)
        /\ load_result.precompiled_module = PrecompileModule(wasm_module.contents)
        /\ load_result.digest # Sha256LowerHex(wasm_module.contents)
        /\ IsSome(wasm_module.metadata)
        /\ load_result.execution_mode = Unwrap(wasm_module.metadata).execution_mode

\* C20 witness: a gatekeeper policy was loaded from the second module file.
C20_Witness ==
    /\ load_result.tag = "Ok"
    /\ load_result.execution_mode = "gatekeeper"
    /\ wasm_module.contents = "wasm-b"
    /\ load_result.digest = "lowerhex(sha256(precompiled(wasm-b)))"

\* The steps of new, in the order of its statements.
LoadOrder == <<"read", "parse", "min_version", "protocol", "precompile", "digest">>

\* C28: new performs its steps in the order read, parse metadata,
\* minimum-version check, protocol check, precompile, digest; a failed step
\* is the last one, so when the read, the parse, the version check or the
\* protocol check fails precompile is never invoked and no precompiled
\* policy is produced; when both checks would fail the error reported is
\* the one of the version check.
C28_StepsInOrderAndNoCompileAfterFailure ==
    /\ Len(load_trace) <= Len(LoadOrder)
    /\ \A i \in 1..Len(load_trace) :
          /\ load_trace[i].step = LoadOrder[i]
          /\ i < Len(load_trace) => load_trace[i].ok
    /\ \A i \in 1..Len(load_trace) :
          ~load_trace[i].ok =>
             /\ load_pc = "done"
             /\ load_result = [tag |-> "Err", error |-> LoadOrder[i]]
             /\ i <= 4 => StepOutcomes("precompile") = {}
    /\ load_result.tag = "Ok" =>
          /\ Len(load_trace) = Len(LoadOrder)
          /\ \A i \in 1..Len(load_trace) : load_trace[i].ok
    /\ (load_pc = "done" /\ StepOutcomes("parse") = {TRUE}
          /\ ~HasMinimumKubewardenVersion(LoadedMetadata)
          /\ ~HasValidProtocolVersion(LoadedMetadata)) =>
          /\ load_result = [tag |-> "Err", error |-> "min_version"]
          /\ StepOutcomes("protocol") = {}
    /\ (load_pc = "done" /\ StepOutcomes("parse") = {TRUE}
          /\ HasMinimumKubewardenVersion(LoadedMetadata)
          /\ ~HasValidProtocolVersion(LoadedMetadata)) =>
          load_result = [tag |-> "Err", error |-> "protocol"]

\* C28 witness: a kubewarden-wapc module without protocol version that
\* asks for a newer Kubewarden than the running one: new ended with the
\* error of the version check after three steps.
C28_Witness ==
    /\ load_pc = "done"
    /\ Len(load_trace) = 3
    /\ ~HasMinimumKubewardenVersion(LoadedMetadata)
    /\ ~HasValidProtocolVersion(LoadedMetadata)
    /\ load_result = [tag |-> "Err", error |-> "min_version"]

\* C4 witness: an opa policy with an unknown protocol version passed, the
\* check having run.
C4_Witness ==
    /\ StepOutcomes("protocol") = {TRUE}
    /\ LoadedMetadata.execution_mode = "opa"
    /\ LoadedMetadata.protocol_version = Some("Unknown")

(***************************************************************************)
(*                       SIGNATURE VERIFIER                                *)
(***************************************************************************)
MaxSigs == 3      \* longest all_of / any_of.signatures list
MaxMin == 3       \* largest minimum_matches

\* config::Signature values. A pubKey signature whose key is not valid PEM
\* is one for which Signature::verifier() returns an error.
Signatures ==
    { [kind |-> "genericIssuer", issuer |-> "github", subject |-> "user1", key |-> ""],
      [kind |-> "genericIssuer", issuer |-> "github", subject |-> "user2", key |-> ""],
      [kind |-> "pubKey", issuer |-> "", subject |-> "", key |-> "notPem"] }

\* Trusted signature layers: keyless layers carry (issuer, subject).
Layers ==
    { [issuer |-> "github", subject |-> "user1"],
      [issuer |-> "github", subject |-> "user2"],
      [issuer |-> "github", subject |-> "unrelated"] }

AnyOfs == [minimum_matches : 0..MaxMin, signatures : SeqsUpTo(Signatures, MaxSigs)]

\* Signature::verifier(): Ok(verifier) or Err.
SignatureVerifier(signature) ==
    IF signature.kind = "pubKey" /\ signature.key = "notPem"
    THEN [ok |-> FALSE]
    ELSE [ok |-> TRUE, kind |-> signature.kind,
          issuer |-> signature.issuer, subject |-> signature.subject]

\* VerificationConstraint::verify(layer) of a verifier.
ConstraintVerify(verifier, layer) ==
    /\ verifier.kind = "genericIssuer"
    /\ layer.issuer = verifier.issuer
    /\ layer.subject = verifier.subject

\* cosign::verify_constraints(layers, [verifier]).is_ok(): the constraint is
\* satisfied by at least one layer.
VerifyConstraints(layers, verifier) ==
    \E l \in layers : ConstraintVerify(verifier, l)

\* The closure of the all_of / any_of filter: TRUE when the signature goes
\* into unsatisfied_signatures.
IsUnsatisfiedMutNoVerifierCheck(layers, signature) ==
    LET v == SignatureVerifier(signature)
    IN v.ok /\ ~VerifyConstraints(layers, v)

IsUnsatisfied(layers, signature) ==
    LET v == SignatureVerifier(signature)
    IN IF v.ok THEN ~VerifyConstraints(layers, v) ELSE TRUE

UnsatisfiedSignaturesMutReversed(layers, signatures) ==
    LET kept == FilterSeq(signatures,
                          [i \in 1..Len(signatures) |-> IsUnsatisfied(layers, signatures[i])], 1)
    IN [i \in 1..Len(kept) |-> kept[Len(kept) + 1 - i]]

\* par_iter().filter(..).collect::<Vec<_>>() keeps the order of the list.
UnsatisfiedSignatures(layers, signatures) ==
    FilterSeq(signatures,
              [i \in 1..Len(signatures) |-> IsUnsatisfied(layers, signatures[i])], 1)

VerifyOk == [tag |-> "Ok"]

VerifyAllOf(config, layers) ==
    IF config.all_of = None THEN VerifyOk
    ELSE LET unsatisfied == UnsatisfiedSignatures(layers, Unwrap(config.all_of))
         IN IF unsatisfied # <<>>
            THEN [tag |-> "Err", msg |-> "missing signatures",
                  unsatisfied |-> unsatisfied]
            ELSE VerifyOk

VerifyAnyOfMutOffByOne(config, layers) ==
    IF config.any_of = None THEN VerifyOk
    ELSE LET signatures_any_of == Unwrap(config.any_of)
             unsatisfied == UnsatisfiedSignatures(layers, signatures_any_of.signatures)
             num_satisfied_constraints ==
                 Len(signatures_any_of.signatures) - Len(unsatisfied)
         IN IF num_satisfied_constraints <= signatures_any_of.minimum_matches
            THEN [tag |-> "Err", msg |-> "minimum number of signatures not reached",
                  needed |-> signatures_any_of.minimum_matches,
                  got |-> num_satisfied_constraints,
                  unsatisfied |-> unsatisfied]
            ELSE VerifyOk

VerifyAnyOf(config, layers) ==
    IF config.any_of = None THEN VerifyOk
    ELSE LET signatures_any_of == Unwrap(config.any_of)
             unsatisfied == UnsatisfiedSignatures(layers, signatures_any_of.signatures)
             num_satisfied_constraints ==
                 Len(signatures_any_of.signatures) - Len(unsatisfied)
         IN IF num_satisfied_constraints < signatures_any_of.minimum_matches
            THEN [tag |-> "Err", msg |-> "minimum number of signatures not reached",
                  needed |-> signatures_any_of.minimum_matches,
                  got |-> num_satisfied_constraints,
                  unsatisfied |-> unsatisfied]
            ELSE VerifyOk

VerifySignaturesAgainstConfigMutAnyOfFirst(config, layers) ==
    IF config.all_of = None /\ config.any_of = None
    THEN [tag |-> "Err", msg |-> "Image verification failed: no signatures to verify"]
    ELSE LET any == VerifyAnyOf(config, layers)
         IN IF any.tag = "Err" THEN any ELSE VerifyAllOf(config, layers)

VerifySignaturesAgainstConfigMutNoGuard(config, layers) ==
    LET all == VerifyAllOf(config, layers)
    IN IF all.tag = "Err" THEN all ELSE VerifyAnyOf(config, layers)

\* verify_signatures_against_config
VerifySignaturesAgainstConfig(config, layers) ==
    IF config.all_of = None /\ config.any_of = None
    THEN [tag |-> "Err", msg |-> "Image verification failed: no signatures to verify"]
    ELSE LET all == VerifyAllOf(config, layers)
         IN IF all.tag = "Err" THEN all ELSE VerifyAnyOf(config, layers)

VerifyIdle ==
    /\ verification_config = [all_of |-> None, any_of |-> None]
    /\ trusted_layers = {}
    /\ verify_result = NotCalled

VerifyInputs ==
    /\ verification_config \in
         [all_of : {None} \cup {Some(l) : l \in SeqsUpTo(Signatures, MaxSigs)},
          any_of : {None} \cup {Some(a) : a \in AnyOfs}]
    /\ trusted_layers \in SUBSET Layers
    /\ verify_result = NotCalled

Verify ==
    /\ verify_result = NotCalled
    /\ verify_result' = VerifySignaturesAgainstConfig(verification_config, trusted_layers)
    /\ UNCHANGED <<verification_config, trusted_layers, notVerifyVars>>

NextVerify == Verify

(***************************************************************************)
(*          SIGNATURE VERIFIER: CHECKSUM OF THE LOCAL FILE                 *)
(***************************************************************************)
MaxLayers == 2    \* longest list of layers of a manifest

WASM_LAYER_MEDIA_TYPE == "application/vnd.wasm.content.layer.v1+wasm"

\* Policy.uri: a scheme prefix and the text after it.
PolicyUris ==
    { [prefix |-> "registry://", rest |-> "ghcr.io/kubewarden/policies/psp:v1"],
      [prefix |-> "", rest |-> "ghcr.io/kubewarden/policies/psp:v1"],
      [prefix |-> "https://", rest |-> "ghcr.io/kubewarden/policies/psp:v1"],
      [prefix |-> "registry://", rest |-> "ghcr.io/Kubewarden/Policies/PSP:v1"] }

\* The bytes a local policy file may hold.
FileContents == {"wasm-a", "wasm-b"}

Policies == [uri : PolicyUris,
             local_path : {None} \cup {Some(c) : c \in FileContents}]

\* str::strip_prefix on a text held as (prefix, rest).
StripPrefix(text, prefix) ==
    IF text.prefix = prefix THEN Some(text.rest) ELSE None

\* Reference::try_from(image_name): the registry and repository of a valid
\* OCI reference (lowercase repository, no scheme), or no reference.
ParseReference(image_name) ==
    IF image_name = "ghcr.io/kubewarden/policies/psp:v1"
    THEN Some([registry |-> "ghcr.io", repository |-> "kubewarden/policies/psp"])
    ELSE None

\* Policy::digest(): lowercase hex of the SHA-256 of the local file.
Sha256Hex(content) == "hex-of-sha256(" \o content \o ")"

LayerDigests ==
    [prefix : {"sha256:", "sha512:"}, rest : {Sha256Hex(c) : c \in FileContents}]

ManifestLayers ==
    [media_type : {WASM_LAYER_MEDIA_TYPE, "application/vnd.oci.image.layer.v1.tar"},
     digest : LayerDigests]

\* Registry::manifest: an image manifest with its layers, or an error.
Manifests ==
    {[tag |-> "Err", error |-> "RegistryError"]}
    \cup {[tag |-> "Image", layers |-> l] : l \in SeqsUpTo(ManifestLayers, MaxLayers)}

ChecksumErr(kind, msg) == [tag |-> "Err", kind |-> kind, msg |-> msg]

\* The digests of the layers of the Wasm media type, in manifest order.
WasmDigests(layers) ==
    LET wasm == SelectSeq(layers, LAMBDA l : l.media_type = WASM_LAYER_MEDIA_TYPE)
    IN [i \in 1..Len(wasm) |-> wasm[i].digest]

VerifyLocalFileChecksumMutFirstWasmLayer(p, m) ==
    LET image_name == IF StripPrefix(p.uri, "registry://") = None
                      THEN p.uri.prefix \o p.uri.rest
                      ELSE Unwrap(StripPrefix(p.uri, "registry://"))
    IN IF ParseReference(image_name) = None
       THEN ChecksumErr("InvalidOCIImageReferenceError", image_name)
       ELSE IF p.local_path = None
       THEN ChecksumErr("MissingWasmFileError", "")
       ELSE IF m.tag = "Err"
       THEN ChecksumErr(m.error, "")
       ELSE LET digests == WasmDigests(m.layers)
            IN IF Len(digests) < 1
               THEN ChecksumErr("ChecksumVerificationError", "not only one WASM layer")
               ELSE LET expected_digest == StripPrefix(digests[1], "sha256:")
                        file_digest == Sha256Hex(Unwrap(p.local_path))
                    IN IF expected_digest = None
                       THEN ChecksumErr("ChecksumVerificationError", "not sha256")
                       ELSE IF file_digest # Unwrap(expected_digest)
                       THEN ChecksumErr("ChecksumVerificationError", "digest mismatch")
                       ELSE [tag |-> "Ok"]

\* Verifier::verify_local_file_checksum(policy, verified_manifest_digest),
\* with m the answer of the registry for the verified digest.
VerifyLocalFileChecksum(p, m) ==
    LET image_name == IF StripPrefix(p.uri, "registry://") = None
                      THEN p.uri.prefix \o p.uri.rest
                      ELSE Unwrap(StripPrefix(p.uri, "registry://"))
    IN IF ParseReference(image_name) = None
       THEN ChecksumErr("InvalidOCIImageReferenceError", image_name)
       ELSE IF p.local_path = None
       THEN ChecksumErr("MissingWasmFileError", "")
       ELSE IF m.tag = "Err"
       THEN ChecksumErr(m.error, "")
       ELSE LET digests == WasmDigests(m.layers)
            IN IF Len(digests) # 1
               THEN ChecksumErr("ChecksumVerificationError", "not only one WASM layer")
               ELSE LET expected_digest == StripPrefix(digests[1], "sha256:")
                        file_digest == Sha256Hex(Unwrap(p.local_path))
                    IN IF expected_digest = None
                       THEN ChecksumErr("ChecksumVerificationError", "not sha256")
                       ELSE IF file_digest # Unwrap(expected_digest)
                       THEN ChecksumErr("ChecksumVerificationError", "digest mismatch")
                       ELSE [tag |-> "Ok"]

ChecksumIdle ==
    /\ policy = [uri |-> [prefix |-> "", rest |-> ""], local_path |-> None]
    /\ manifest = [tag |-> "Err", error |-> "RegistryError"]
    /\ checksum_result = NotCalled

ChecksumInputs ==
    /\ policy \in Policies
    /\ manifest \in Manifests
    /\ checksum_result = NotCalled

VerifyChecksum ==
    /\ checksum_result = NotCalled
    /\ checksum_result' = VerifyLocalFileChecksum(policy, manifest)
    /\ UNCHANGED <<policy, manifest, notChecksumVars>>

NextChecksum == VerifyChecksum

\* C17: verify_local_file_checksum succeeds iff the policy URI is a valid
\* OCI reference, the local file exists, the manifest has exactly one layer
\* of the Wasm media type, the digest of that layer starts with "sha256:"
\* and the rest of it is the SHA-256 of the local file; otherwise the
\* result is an error.
C17_ChecksumOkIffSingleMatchingWasmLayer ==
    checksum_result # NotCalled =>
        LET valid_reference ==
                \/ policy.uri.prefix = "registry://"
                     /\ ParseReference(policy.uri.rest) # None
                \/ policy.uri.prefix # "registry://"
                     /\ ParseReference(policy.uri.prefix \o policy.uri.rest) # None
            wasm == IF manifest.tag = "Image"
                    THEN {i \in 1..Len(manifest.layers) :
                            manifest.layers[i].media_type = WASM_LAYER_MEDIA_TYPE}
                    ELSE {}
            good == /\ valid_reference
                    /\ policy.local_path # None
                    /\ Cardinality(wasm) = 1
                    /\ \A i \in wasm :
                          manifest.layers[i].digest =
                             [prefix |-> "sha256:",
                              rest |-> Sha256Hex(Unwrap(policy.local_path))]
        IN /\ checksum_result.tag \in {"Ok", "Err"}
           /\ checksum_result.tag = "Ok" <=> good

\* C17 witness: a manifest with two layers, one of them the Wasm layer
\* with the digest of the local file, has been accepted.
C17_Witness ==
    /\ checksum_result = [tag |-> "Ok"]
    /\ Len(manifest.layers) = 2
    /\ policy.uri.prefix = "registry://"

(***************************************************************************)
(*          SOURCES CONFIGURATION: CERTIFICATES OF THE AUTHORITIES         *)
(***************************************************************************)
MaxCerts == 2     \* longest list of authorities of a host

\* The bytes of a raw certificate, by what the two parsers make of them.
CertDatas == [pem : BOOLEAN, der : BOOLEAN]

\* parse_x509_pem(&cert_data).is_ok()
ParseX509Pem(cert_data) == cert_data.pem

\* X509Certificate::from_der(&cert_data).is_ok()
FromDer(cert_data) == cert_data.der

\* fs::read(path): the paths of the configuration and what they hold.
FsRead(path) ==
    IF path = "/ca.pem" THEN Some([pem |-> TRUE, der |-> FALSE]) ELSE None

RawSourceAuthority ==
    [type : {"Data"}, data : CertDatas]
    \cup [type : {"Path"}, path : {"/ca.pem", "/missing.pem"}]

Hosts == {"registry.a.io", "registry.b.io"}

\* RawSourceAuthorities: host -> Vec<RawSourceAuthority>
RawSourceAuthorities ==
    UNION {[hs -> SeqsUpTo(RawSourceAuthority, MaxCerts)] : hs \in SUBSET Hosts}

SourceErr(kind) == [tag |-> "Err", error |-> kind]

\* TryFrom<RawSourceAuthority> for RawCertificate
RawCertificateTryFrom(raw_source_authority) ==
    IF raw_source_authority.type = "Data"
    THEN [tag |-> "Ok", value |-> raw_source_authority.data]
    ELSE IF FsRead(raw_source_authority.path) = None
    THEN SourceErr("CannotReadCertificateError")
    ELSE [tag |-> "Ok", value |-> Unwrap(FsRead(raw_source_authority.path))]

CertificateTryFromMutDerFirst(raw_certificate) ==
    IF FromDer(raw_certificate)
    THEN [tag |-> "Ok", value |-> [encoding |-> "Der", data |-> raw_certificate]]
    ELSE IF ParseX509Pem(raw_certificate)
    THEN [tag |-> "Ok", value |-> [encoding |-> "Pem", data |-> raw_certificate]]
    ELSE SourceErr("InvalidCertificateError")

\* TryFrom<RawCertificate> for Certificate
CertificateTryFrom(raw_certificate) ==
    IF ParseX509Pem(raw_certificate)
    THEN [tag |-> "Ok", value |-> [encoding |-> "Pem", data |-> raw_certificate]]
    ELSE IF FromDer(raw_certificate)
    THEN [tag |-> "Ok", value |-> [encoding |-> "Der", data |-> raw_certificate]]
    ELSE SourceErr("InvalidCertificateError")

\* authority.try_into()? followed by raw_cert.try_into()?
AuthorityToCertificate(authority) ==
    LET raw_cert == RawCertificateTryFrom(authority)
    IN IF raw_cert.tag = "Err" THEN raw_cert ELSE CertificateTryFrom(raw_cert.value)

\* The inner loop over the authorities of one host: the certificates in
\* order, or the error of the first authority that fails.
HostCertificates(authorities) ==
    LET converted == [i \in 1..Len(authorities) |-> AuthorityToCertificate(authorities[i])]
        failed == {i \in 1..Len(authorities) : converted[i].tag = "Err"}
    IN IF failed # {}
       THEN converted[CHOOSE i \in failed : \A j \in failed : i <= j]
       ELSE [tag |-> "Ok", value |-> [i \in 1..Len(authorities) |-> converted[i].value]]

\* The orders in which a HashMap with these hosts may be iterated.
IterationOrders(hosts) ==
    {order \in [1..Cardinality(hosts) -> hosts] :
        \A i, j \in 1..Cardinality(hosts) : order[i] = order[j] => i = j}

\* TryFrom<RawSourceAuthorities> for SourceAuthorities, the hosts being
\* visited in `order`.
SourceAuthoritiesTryFrom(raw_source_authorities, order) ==
    LET converted == [i \in 1..Len(order) |-> HostCertificates(raw_source_authorities[order[i]])]
        failed == {i \in 1..Len(order) : converted[i].tag = "Err"}
    IN IF failed # {}
       THEN converted[CHOOSE i \in failed : \A j \in failed : i <= j]
       ELSE [tag |-> "Ok",
             value |-> [h \in DOMAIN raw_source_authorities |->
                          HostCertificates(raw_source_authorities[h]).value]]

\* TryFrom<RawSources> for Sources
SourcesTryFrom(sources, order) ==
    LET source_authorities == SourceAuthoritiesTryFrom(sources.source_authorities, order)
    IN IF source_authorities.tag = "Err" THEN source_authorities
       ELSE [tag |-> "Ok",
             value |-> [insecure_sources |-> sources.insecure_sources,
                        source_authorities |-> source_authorities.value]]

SourcesIdle ==
    /\ raw_sources = [insecure_sources |-> {}, source_authorities |-> <<>>]
    /\ sources_result = NotCalled

SourcesInputs ==
    /\ raw_sources \in [insecure_sources : {{}, {"registry.a.io"}},
                        source_authorities : RawSourceAuthorities]
    /\ sources_result = NotCalled

ConvertSources ==
    /\ sources_result = NotCalled
    /\ \E order \in IterationOrders(DOMAIN raw_sources.source_authorities) :
         sources_result' = SourcesTryFrom(raw_sources, order)
    /\ UNCHANGED <<raw_sources, notSourcesVars>>

NextSources == ConvertSources

\* The authority is readable and its bytes parse as PEM or as DER.
ValidAuthority(authority) ==
    IF authority.type = "Data"
    THEN authority.data.pem \/ authority.data.der
    ELSE authority.path = "/ca.pem"

\* The bytes of a valid authority.
AuthorityBytes(authority) ==
    IF authority.type = "Data" THEN authority.data ELSE [pem |-> TRUE, der |-> FALSE]

\* C24: the conversion of a sources configuration succeeds iff every
\* certificate of every host is readable and parses as PEM or as DER; a
\* certificate is Pem when it parses as PEM, else Der when it parses as DER;
\* a failure is InvalidCertificateError (or the read error) and carries no
\* partial result; on success every host keeps its certificates in order.
C24_SourcesConversionAllOrNothing ==
    sources_result # NotCalled =>
        LET raw == raw_sources.source_authorities
            all_valid == \A h \in DOMAIN raw : \A i \in 1..Len(raw[h]) :
                            ValidAuthority(raw[h][i])
            unreadable == \E h \in DOMAIN raw : \E i \in 1..Len(raw[h]) :
                            raw[h][i].type = "Path" /\ ~ValidAuthority(raw[h][i])
        IN /\ sources_result.tag = "Ok" <=> all_valid
           /\ sources_result.tag = "Ok" =>
                /\ sources_result.value.insecure_sources = raw_sources.insecure_sources
                /\ DOMAIN sources_result.value.source_authorities = DOMAIN raw
                /\ \A h \in DOMAIN raw :
                     LET certs == sources_result.value.source_authorities[h]
                     IN /\ Len(certs) = Len(raw[h])
                        /\ \A i \in 1..Len(certs) :
                             /\ certs[i].data = AuthorityBytes(raw[h][i])
                             /\ certs[i].encoding =
                                  IF AuthorityBytes(raw[h][i]).pem THEN "Pem" ELSE "Der"
           /\ sources_result.tag # "Ok" =>
                /\ sources_result.tag = "Err"
                /\ DOMAIN sources_result = {"tag", "error"}
                /\ sources_result.error \in
                     {"InvalidCertificateError", "CannotReadCertificateError"}
                /\ ~unreadable => sources_result.error = "InvalidCertificateError"

\* C24 witness: a host with a DER certificate followed by bytes that parse
\* both ways was converted, the second certificate classified Pem.
C24_Witness ==
    /\ sources_result # NotCalled
    /\ sources_result.tag = "Ok"
    /\ \E h \in DOMAIN sources_result.value.source_authorities :
         LET certs == sources_result.value.source_authorities[h]
         IN /\ Len(certs) = 2
            /\ certs[1] = [encoding |-> "Der", data |-> [pem |-> FALSE, der |-> TRUE]]
            /\ certs[2] = [encoding |-> "Pem", data |-> [pem |-> TRUE, der |-> TRUE]]

(***************************************************************************)
(*          KUBERNETES CAPABILITIES: CLIENT AND MEMO CACHES                *)
(***************************************************************************)
NumCallers == 2   \* concurrent callers of the capability functions
MemoTTL == 5      \* #[cached(time = 5)]: seconds a stored result lives

Callers == 1..NumCallers
Free == 0         \* no caller holds the lock

\* What the cluster's discovery API reports for (api_version, kind).
ClusterResources ==
    { [api_version |-> "v1", kind |-> "Pod", plural |-> "pods", namespaced |-> TRUE],
      [api_version |-> "v1", kind |-> "Namespace", plural |-> "namespaces",
       namespaced |-> FALSE],
      [api_version |-> "rbac.authorization.k8s.io/v1", kind |-> "ClusterRole",
       plural |-> "clusterroles", namespaced |-> FALSE],
      [api_version |-> "apps", kind |-> "Deployment", plural |-> "deployments",
       namespaced |-> TRUE] }

\* api_version.split_once('/') of the api versions in use; "v1" is the core
\* group.
GroupVersion(api_version) ==
    CASE api_version = "v1" -> Some(<<"", "v1">>)
      [] api_version = "rbac.authorization.k8s.io/v1" ->
            Some(<<"rbac.authorization.k8s.io", "v1">>)
      [] OTHER -> None

ApiVersionKind(api_version, kind) == [api_version |-> api_version, kind |-> kind]

\* Arguments of get_resource / get_resource_cached.
GetResourceArgs ==
    { [api_version |-> "v1", kind |-> "Pod", name |-> "web", namespace |-> Some("prod")],
      [api_version |-> "v1", kind |-> "Pod", name |-> "web", namespace |-> None],
      [api_version |-> "rbac.authorization.k8s.io/v1", kind |-> "ClusterRole",
       name |-> "edit),view", namespace |-> None],
      [api_version |-> "rbac.authorization.k8s.io/v1", kind |-> "ClusterRole),edit",
       name |-> "view", namespace |-> None] }

\* KWSubjectAccessReview requests of can_i / can_i_cached.
SubjectAccessReviews == {"alice-get-pods"}

\* What Kubernetes may answer: the object (or review status) as it is at the
\* time of the call, or no answer.
Answers == {"rev1", "rev2"}
UpstreamOutcomes == Answers \cup {"NotFound", "ApiError"}

CachedCalls ==
    [fn : {"get_resource_cached"}, client : BOOLEAN, args : GetResourceArgs]
    \cup [fn : {"can_i_cached"}, client : BOOLEAN, args : SubjectAccessReviews]

\* {:?} of an Option<&str>
DebugOption(o) == IF o = None THEN "None" ELSE "Some(\"" \o Unwrap(o) \o "\")"

\* The key of a call in its store: the convert block of #[cached].
MemoKey(c) ==
    IF c.fn = "get_resource_cached"
    THEN "get_resource_cached(" \o c.args.api_version \o "," \o c.args.kind \o "),"
         \o c.args.name \o "," \o DebugOption(c.args.namespace)
    ELSE c.args

StoreKey(c) == <<c.fn, MemoKey(c)>>

KubeErr(error) == [tag |-> "Err", error |-> error]

DiscoverKubeResourceMutInvalidates(api_version, kind, discovery) ==
    LET avk == ApiVersionKind(api_version, kind)
        found == {r \in ClusterResources : r.api_version = api_version /\ r.kind = kind}
    IN IF discovery = "ApiError"
       THEN [result |-> KubeErr("error finding resource"), cache |-> <<>>]
       ELSE IF found = {}
       THEN [result |-> KubeErr("Cannot find resource"), cache |-> kube_resources]
       ELSE IF GroupVersion(api_version) = None
       THEN [result |-> KubeErr("cannot determine group and version"),
             cache |-> kube_resources]
       ELSE LET kube_resource == CHOOSE r \in found : TRUE
            IN [result |-> [tag |-> "Ok", value |-> kube_resource],
                cache |-> [a \in DOMAIN kube_resources \cup {avk} |->
                             IF a = avk THEN kube_resource ELSE kube_resources[a]]]

\* Client::build_kube_resource, after the lookup missed: discovery is
\* queried and the resource it finds is cached. Gives the result and the
\* discovery cache.
DiscoverKubeResource(api_version, kind, discovery) ==
    LET avk == ApiVersionKind(api_version, kind)
        found == {r \in ClusterResources : r.api_version = api_version /\ r.kind = kind}
    IN IF discovery = "ApiError"
       THEN [result |-> KubeErr("error finding resource"), cache |-> kube_resources]
       ELSE IF found = {}
       THEN [result |-> KubeErr("Cannot find resource"), cache |-> kube_resources]
       ELSE IF GroupVersion(api_version) = None
       THEN [result |-> KubeErr("cannot determine group and version"),
             cache |-> kube_resources]
       ELSE LET kube_resource == CHOOSE r \in found : TRUE
            IN [result |-> [tag |-> "Ok", value |-> kube_resource],
                cache |-> [a \in DOMAIN kube_resources \cup {avk} |->
                             IF a = avk THEN kube_resource ELSE kube_resources[a]]]

\* Client::build_kube_resource: the cached resource, or the discovered one.
BuildKubeResource(api_version, kind, discovery) ==
    LET avk == ApiVersionKind(api_version, kind)
    IN IF avk \in DOMAIN kube_resources
       THEN [result |-> [tag |-> "Ok", value |-> kube_resources[avk]],
             cache |-> kube_resources]
       ELSE DiscoverKubeResource(api_version, kind, discovery)

ResourceApiMutKeepsNamespace(resource, namespace) ==
    IF resource.namespaced \/ namespace # None
    THEN [scope |-> "namespaced", namespace |-> Unwrap(namespace),
          plural |-> resource.plural]
    ELSE [scope |-> "all", plural |-> resource.plural]

\* The Api Client::get_resource builds for a resolved resource: namespaced_with
\* the namespace for a namespaced resource, all_with for a cluster-wide one.
ResourceApi(resource, namespace) ==
    IF resource.namespaced
    THEN [scope |-> "namespaced", namespace |-> Unwrap(namespace),
          plural |-> resource.plural]
    ELSE [scope |-> "all", plural |-> resource.plural]

\* Client::get_resource wrapped by get_resource(client, ..): the result, the
\* discovery cache, whether a Kubernetes get was issued, and the Api it was
\* issued on.
GetResource(client, args, discovery, upstream) ==
    IF ~client
    THEN [result |-> KubeErr("kube::Client was not initialized properly"),
          cache |-> kube_resources, upstream |-> FALSE, api |-> None]
    ELSE LET built == BuildKubeResource(args.api_version, args.kind, discovery)
         IN IF built.result.tag = "Err"
            THEN [result |-> built.result, cache |-> built.cache,
                  upstream |-> FALSE, api |-> None]
            ELSE IF built.result.value.namespaced /\ args.namespace = None
            THEN [result |-> KubeErr("namespaced, but no namespace was provided"),
                  cache |-> built.cache, upstream |-> FALSE, api |-> None]
            ELSE [result |->
                      IF upstream \in Answers
                      THEN [tag |-> "Ok", was_cached |-> FALSE, value |-> upstream]
                      ELSE KubeErr(upstream),
                  cache |-> built.cache, upstream |-> TRUE,
                  api |-> Some(ResourceApi(built.result.value, args.namespace))]

\* Client::get_resource_plural_name wrapped by get_resource_plural_name(client,
\* ..): the result, the discovery cache, and whether build_kube_resource
\* queried discovery for it.
GetResourcePluralName(client, args, discovery) ==
    IF ~client
    THEN [result |-> KubeErr("kube::Client was not initialized properly"),
          cache |-> kube_resources, discovered |-> FALSE]
    ELSE LET built == BuildKubeResource(args.api_version, args.kind, discovery)
             discovered == ApiVersionKind(args.api_version, args.kind)
                              \notin DOMAIN kube_resources
         IN IF built.result.tag = "Err"
            THEN [result |-> built.result, cache |-> built.cache,
                  discovered |-> discovered]
            ELSE [result |-> [tag |-> "Ok", was_cached |-> TRUE,
                              value |-> built.result.value.plural],
                  cache |-> built.cache, discovered |-> discovered]

\* Client::can_i wrapped by can_i(client, request)
CanI(client, request, upstream) ==
    IF ~client
    THEN [result |-> KubeErr("kube::Client was not initialized properly"),
          cache |-> kube_resources, upstream |-> FALSE]
    ELSE [result |->
              IF upstream \in Answers
              THEN [tag |-> "Ok", was_cached |-> FALSE, value |-> upstream]
              ELSE KubeErr(upstream),
          cache |-> kube_resources, upstream |-> TRUE]

\* The function a #[cached] function wraps.
Inner(c, discovery, upstream) ==
    IF c.fn = "get_resource_cached"
    THEN GetResource(c.client, c.args, discovery, upstream)
    ELSE CanI(c.client, c.args, upstream)

\* TimedCache::cache_get: the stored result when it is younger than the TTL.
CacheGet(k) ==
    IF k \in DOMAIN memo /\ memo[k].age < MemoTTL THEN Some(memo[k].value) ELSE None

CacheSetMutStoresErrors(k, result, args) ==
    [j \in DOMAIN memo \cup {k} |->
       IF j = k
       THEN [value |-> IF result.tag = "Ok" THEN result.value ELSE result.error,
             age |-> 0, args |-> args]
       ELSE memo[j]]

\* result = true: cache_set stores the value of an Ok result only; an Err
\* is returned without touching the store.
CacheSet(k, result, args) ==
    IF result.tag = "Ok"
    THEN [j \in DOMAIN memo \cup {k} |->
            IF j = k THEN [value |-> result.value, age |-> 0, args |-> args]
            ELSE memo[j]]
    ELSE memo

\* sync_writes = "default": the guard of the store's lock, taken before the
\* lookup, lives until the function returns.
GuardAfterMissMutReleased(p) == Free

GuardAfterMiss(p) == p

KubeIdle ==
    /\ kube_resources = <<>>
    /\ reflectors = <<>>
    /\ now = 0
    /\ memo = <<>>
    /\ memo_lock = <<>>
    /\ pc = <<>>
    /\ call = <<>>
    /\ ret = <<>>
    /\ window = <<>>

MemoInit ==
    /\ kube_resources = <<>>
    /\ reflectors = <<>>
    /\ now = 0
    /\ memo = <<>>
    /\ memo_lock = [fn \in {"get_resource_cached", "can_i_cached"} |-> Free]
    /\ pc = [p \in Callers |-> "idle"]
    /\ call = [p \in Callers |-> NotCalled]
    /\ ret = [p \in Callers |-> NotCalled]
    /\ window = <<>>

\* A caller calls get_resource_cached or can_i_cached: the key is computed
\* and the caller waits for the lock of the store.
CachedCall(p) ==
    /\ pc[p] = "idle"
    /\ \E c \in CachedCalls : call' = [call EXCEPT ![p] = c]
    /\ pc' = [pc EXCEPT ![p] = "lock"]
    /\ UNCHANGED <<kube_resources, memoVars, reflectorVars, ret, notKubeVars>>

\* The caller gets the lock and looks its key up: a live result is returned
\* with was_cached = true; otherwise the wrapped function is to run.
CachedLookup(p) ==
    /\ pc[p] = "lock"
    /\ memo_lock[call[p].fn] = Free
    /\ LET k == StoreKey(call[p])
           hit == CacheGet(k)
           live == IF k \in DOMAIN window /\ window[k].age < MemoTTL
                   THEN Some(window[k].value) ELSE None
       IN IF IsSome(hit)
          THEN /\ ret' = [ret EXCEPT ![p] =
                            [tag |-> "Ok", was_cached |-> TRUE, value |-> Unwrap(hit),
                             fetched |-> FALSE, window |-> live,
                             stored_for |-> memo[k].args]]
               /\ pc' = [pc EXCEPT ![p] = "done"]
               /\ UNCHANGED <<memo, memo_lock>>
          ELSE /\ memo' = [j \in DOMAIN memo \ {k} |-> memo[j]]
               /\ memo_lock' = [memo_lock EXCEPT ![call[p].fn] = GuardAfterMiss(p)]
               /\ pc' = [pc EXCEPT ![p] = "inner"]
               /\ ret' = [ret EXCEPT ![p] = [tag |-> "none", window |-> live]]
    /\ UNCHANGED <<kube_resources, call, window, reflectorVars, notKubeVars>>

\* The wrapped function runs and returns; an Ok result is stored
\* (result = true), the lock is released.
CachedInner(p) ==
    /\ pc[p] = "inner"
    /\ \E discovery \in {"Ok", "ApiError"}, upstream \in UpstreamOutcomes :
         LET k == StoreKey(call[p])
             inner == Inner(call[p], discovery, upstream)
             live == k \in DOMAIN window /\ window[k].age < MemoTTL
         IN /\ kube_resources' = inner.cache
            /\ memo' = CacheSet(k, inner.result, call[p].args)
            /\ ret' = [ret EXCEPT ![p] =
                         IF inner.result.tag = "Ok"
                         THEN [tag |-> "Ok", was_cached |-> FALSE,
                               value |-> inner.result.value,
                               fetched |-> inner.upstream, window |-> ret[p].window,
                               stored_for |-> call[p].args]
                         ELSE inner.result]
            /\ window' =
                 IF ~inner.upstream THEN window
                 ELSE IF live
                 THEN [window EXCEPT ![k].gets = @ + 1]
                 ELSE IF inner.result.tag = "Ok"
                 THEN [j \in DOMAIN window \cup {k} |->
                         IF j = k THEN [value |-> inner.result.value, age |-> 0, gets |-> 1]
                         ELSE window[j]]
                 ELSE window
    /\ memo_lock' = [memo_lock EXCEPT ![call[p].fn] = Free]
    /\ pc' = [pc EXCEPT ![p] = "done"]
    /\ UNCHANGED <<call, reflectorVars, notKubeVars>>

\* A second passes: every stored result is a second older (an age of
\* MemoTTL or more is an expired result).
Tick ==
    /\ \E k \in DOMAIN memo \cup DOMAIN window :
         (IF k \in DOMAIN memo THEN memo[k].age ELSE window[k].age) < MemoTTL
    /\ memo' = [k \in DOMAIN memo |->
                  [memo[k] EXCEPT !.age = IF @ < MemoTTL THEN @ + 1 ELSE @]]
    /\ window' = [k \in DOMAIN window |->
                    [window[k] EXCEPT !.age = IF @ < MemoTTL THEN @ + 1 ELSE @]]
    /\ UNCHANGED <<kube_resources, memo_lock, pc, call, ret, reflectorVars, notKubeVars>>

NextMemo ==
    \/ \E p \in Callers : CachedCall(p)
    \/ \E p \in Callers : CachedLookup(p)
    \/ \E p \in Callers : CachedInner(p)
    \/ Tick

(***************************************************************************)
(* Claims about the memo caches.                                           *)
(***************************************************************************)
\* C6: short-TTL coalescing of get_resource_cached and can_i_cached. While a
\* successful upstream result for a key is younger than the TTL, no further
\* upstream call is made for the key (one upstream call per key and TTL
\* window); a call is answered with was_cached = false exactly when it made
\* the upstream call itself; and every call that looks the key up within the
\* TTL window gets the value of that one upstream call with
\* was_cached = true.
C6_ShortTtlCoalescing ==
    /\ \A k \in DOMAIN window : window[k].gets = 1
    /\ \A p \in Callers :
         ret[p].tag = "Ok" =>
            /\ ret[p].was_cached = ~ret[p].fetched
            /\ ret[p].was_cached <=> IsSome(ret[p].window)
            /\ ret[p].was_cached => ret[p].value = Unwrap(ret[p].window)

\* C12: two calls share a memo entry only if their argument tuples are
\* equal: a call of get_resource_cached never gets the object stored for
\* another (api_version, kind, name, namespace), and a call of can_i_cached
\* never the status stored for another request.
C12_MemoKeyedByFullTuple ==
    \A p \in Callers :
        (pc[p] = "done" /\ ret[p].tag = "Ok") => ret[p].stored_for = call[p].args

\* C19: a capability function called without a Kubernetes client returns
\* the error 'kube::Client was not initialized properly' and never a
\* success value, whatever calls preceded it.
C19_NoClientAlwaysFails ==
    \A p \in Callers :
        (pc[p] = "done" /\ ~call[p].client) =>
            ret[p] = KubeErr("kube::Client was not initialized properly")

\* C25: failures are not memoised: when a call of get_resource_cached or
\* can_i_cached returns an error the store has no entry for its key, so
\* the next call for the key runs the wrapped function again; what the
\* store serves is a value Kubernetes gave, returned as Ok with
\* was_cached = true.
C25_FailuresNotMemoised ==
    [][\A p \in Callers :
          LET k == StoreKey(call[p]) IN
          /\ (pc[p] = "inner" /\ pc'[p] = "done" /\ ret'[p].tag = "Err") =>
                /\ k \notin DOMAIN memo'
                /\ \A q \in Callers :
                      (pc'[q] = "lock" /\ StoreKey(call'[q]) = k) =>
                         CacheGet(k)' = None
          /\ (pc[p] = "lock" /\ pc'[p] = "done") =>
                /\ ret'[p].tag = "Ok"
                /\ ret'[p].was_cached
                /\ ret'[p].value \in Answers
          /\ (pc'[p] = "done" /\ ret'[p].tag = "Ok" /\ ret'[p].was_cached) =>
                ~ret'[p].fetched
          /\ \A j \in DOMAIN memo' : memo'[j].value \in Answers]_vars

\* C25 witness: a call failed upstream and left no entry; the next call
\* for the same key went upstream again and got a value.
C25_Witness ==
    \E p, q \in Callers :
        /\ p # q
        /\ pc[p] = "done" /\ pc[q] = "done"
        /\ call[p] = call[q]
        /\ ret[p] = KubeErr("ApiError")
        /\ ret[q].tag = "Ok" /\ ~ret[q].was_cached /\ ret[q].fetched

\* C6 witness: two callers of get_resource_cached with the same arguments
\* have returned; the key saw one upstream get; one caller has
\* was_cached = false, the other the same value with was_cached = true.
C6_Witness ==
    \E p, q \in Callers :
        /\ p # q
        /\ pc[p] = "done" /\ pc[q] = "done"
        /\ call[p].fn = "get_resource_cached"
        /\ call[q].fn = "get_resource_cached"
        /\ call[p].args = call[q].args
        /\ ret[p].tag = "Ok" /\ ret[q].tag = "Ok"
        /\ ~ret[p].was_cached /\ ret[q].was_cached
        /\ ret[p].value = ret[q].value
        /\ window[StoreKey(call[p])].gets = 1

(***************************************************************************)
(*          KUBERNETES CAPABILITIES: REFLECTORS AND LIST QUERIES           *)
(***************************************************************************)
MaxInstant == 2   \* the clock runs from 0 to MaxInstant

\* (label_selector, field_selector) of a list query.
Selectors == { <<None, None>>, <<Some("app=web"), Some("status.phase=Running")>> }

ListCalls ==
    [fn : {"list_resources_all"}, api_version : {"v1"}, kind : {"Pod"},
     selectors : Selectors]
    \cup [fn : {"list_resources_by_namespace"}, api_version : {"v1"},
          kind : {"Pod", "Namespace"}, namespace : {"prod"},
          selectors : {<<None, None>>}]
    \cup [fn : {"list_resources_all"}, selectors : {<<None, None>>},
          api_version : {"v1", "apps"}, kind : {"Deployment"}]
    \cup [fn : {"has_list_resources_all_result_changed_since_instant"},
          api_version : {"v1"}, kind : {"Pod"}, selectors : {<<None, None>>},
          since : {1}]

\* The contents a reflector's store may have: the objects of the query as
\* the watch stream last reported them.
Stores == {{"kube-dns"}, {"kube-dns", "metrics-server"}}

\* The objects of the cluster when a reflector is created: its first list.
InitialStore == {"kube-dns"}

ObjectListMutNoSuffix(api_version, kind, items) ==
    [api_version |-> api_version, kind |-> kind, items |-> items]

\* The ObjectList envelope list_resources_from_reflector builds around the
\* state of the reader.
ObjectList(api_version, kind, items) ==
    [api_version |-> api_version, kind |-> kind \o "List", items |-> items]

\* Reflector::compute_id(resource, namespace, label_selector, field_selector)
ComputeId(resource, namespace, label_selector, field_selector) ==
    <<resource.api_version, resource.kind, namespace, label_selector, field_selector>>

\* The namespace a list call hands to the reflector.
ListNamespace(c) ==
    IF c.fn = "list_resources_by_namespace" THEN Some(c.namespace) ELSE None

\* The reflector id of a call whose resource has been resolved.
CallReflectorId(c) ==
    ComputeId(c.resource, ListNamespace(c), c.selectors[1], c.selectors[2])

HaveReflectorResourcesChangedSinceMutMissingFalse(id, since) ==
    IF id \in DOMAIN reflectors
    THEN reflectors[id].last_change_seen_at > since
    ELSE FALSE

HaveReflectorResourcesChangedSinceMutNotStrict(id, since) ==
    IF id \in DOMAIN reflectors
    THEN reflectors[id].last_change_seen_at >= since
    ELSE TRUE

\* Client::have_reflector_resources_changed_since, for the id it computes
HaveReflectorResourcesChangedSince(id, since) ==
    IF id \in DOMAIN reflectors
    THEN reflectors[id].last_change_seen_at > since
    ELSE TRUE

ReflectorInit ==
    /\ kube_resources = <<>>
    /\ reflectors = <<>>
    /\ now = 0
    /\ memo = <<>>
    /\ memo_lock = <<>>
    /\ window = <<>>
    /\ pc = [p \in Callers |-> "idle"]
    /\ call = [p \in Callers |-> NotCalled]
    /\ ret = [p \in Callers |-> NotCalled]

\* The call of caller p returns r: its locals are gone, the caller keeps
\* the arguments and the result.
Return(p, r) ==
    /\ pc' = [pc EXCEPT ![p] = "done"]
    /\ ret' = [ret EXCEPT ![p] = r]
    /\ call' = [call EXCEPT ![p] = [f \in DOMAIN @ \ {"resource", "queried"} |-> @[f]]]

\* The resource of p's call is resolved: the call goes on with the check of
\* list_resources_by_namespace, then with the reflector. queried records
\* whether build_kube_resource asked discovery.
Resolved(p, resource, queried) ==
    IF call[p].fn = "list_resources_by_namespace" /\ ~resource.namespaced
    THEN Return(p, KubeErr("resource is cluster wide"))
    ELSE /\ call' = [call EXCEPT ![p] =
                      [resource |-> resource, queried |-> queried] @@ @]
         /\ pc' = [pc EXCEPT ![p] =
                     IF call[p].fn = "has_list_resources_all_result_changed_since_instant"
                     THEN "check" ELSE "reader"]
         /\ UNCHANGED ret

\* A caller calls one of the list functions of the client.
ListCall(p) ==
    /\ pc[p] = "idle"
    /\ \E c \in ListCalls : call' = [call EXCEPT ![p] = c]
    /\ pc' = [pc EXCEPT ![p] = "lookup"]
    /\ UNCHANGED <<kube_resources, memoVars, reflectorVars, ret, notKubeVars>>

\* build_kube_resource: the read of the discovery cache.
KubeLookup(p) ==
    /\ pc[p] = "lookup"
    /\ LET avk == ApiVersionKind(call[p].api_version, call[p].kind)
       IN IF avk \in DOMAIN kube_resources
          THEN Resolved(p, kube_resources[avk], FALSE)
          ELSE /\ pc' = [pc EXCEPT ![p] = "discover"]
               /\ UNCHANGED <<call, ret>>
    /\ UNCHANGED <<kube_resources, memoVars, reflectorVars, notKubeVars>>

\* build_kube_resource: the discovery query and the write of the cache.
KubeDiscover(p) ==
    /\ pc[p] = "discover"
    /\ \E discovery \in {"Ok", "ApiError"} :
         LET found == DiscoverKubeResource(call[p].api_version, call[p].kind, discovery)
         IN /\ kube_resources' = found.cache
            /\ IF found.result.tag = "Ok"
               THEN Resolved(p, found.result.value, TRUE)
               ELSE Return(p, found.result)
    /\ UNCHANGED <<memoVars, reflectorVars, notKubeVars>>

\* get_reflector_reader: the read of the reflector map; with a reflector
\* for the id, list_resources_from_reflector returns its list.
ReflectorLookup(p) ==
    /\ pc[p] = "reader"
    /\ IF CallReflectorId(call[p]) \in DOMAIN reflectors
       THEN Return(p, [tag |-> "Ok",
                       value |-> ObjectList(call[p].api_version, call[p].kind,
                                            reflectors[CallReflectorId(call[p])].store)])
       ELSE pc' = [pc EXCEPT ![p] = "create"] /\ UNCHANGED <<call, ret>>
    /\ UNCHANGED <<kube_resources, memoVars, reflectorVars, notKubeVars>>

\* History: how many reflectors Reflector::create_and_run has made for id
\* and get_reflector_reader has inserted.
Instances(id) == IF id \in DOMAIN reflectors THEN reflectors[id].instance ELSE 0

\* get_reflector_reader: Reflector::create_and_run, and the insert of the
\* reflector under its id.
ReflectorCreate(p) ==
    /\ pc[p] = "create"
    /\ \/ \E store \in {InitialStore} :
          /\ reflectors' = [i \in DOMAIN reflectors \cup {CallReflectorId(call[p])} |->
                              IF i = CallReflectorId(call[p])
                              THEN [last_change_seen_at |-> now, store |-> store,
                                    instance |-> Instances(CallReflectorId(call[p])) + 1]
                              ELSE reflectors[i]]
          /\ Return(p, [tag |-> "Ok",
                        value |-> ObjectList(call[p].api_version, call[p].kind, store)])
       \/ /\ Return(p, KubeErr("cannot create reflector"))
          /\ UNCHANGED reflectors
    /\ UNCHANGED <<kube_resources, memoVars, now, notKubeVars>>

\* The id of the reflector a has_list_resources_all_result_changed_since_instant
\* call asks.
CheckedId(c) == ComputeId(c.resource, None, c.selectors[1], c.selectors[2])

\* has_list_resources_all_result_changed_since_instant, once the resource
\* is resolved: the reflector of the list-all query is asked.
HasChangedCheck(p) ==
    /\ pc[p] = "check"
    /\ Return(p, [tag |-> "Ok",
                  value |-> HaveReflectorResourcesChangedSince(CheckedId(call[p]),
                                                                call[p].since)])
    /\ UNCHANGED <<kube_resources, memoVars, reflectorVars, notKubeVars>>

\* The calls of the client that use no reflector: get_resource,
\* get_resource_plural_name and can_i.
DirectCalls ==
    [fn : {"get_resource"},
     args : { [api_version |-> "v1", kind |-> "Pod", name |-> "web",
               namespace |-> None],
              [api_version |-> "v1", kind |-> "Namespace", name |-> "prod",
               namespace |-> None],
              [api_version |-> "v1", kind |-> "Namespace", name |-> "prod",
               namespace |-> Some("kube-system")] }]
    \cup [fn : {"get_resource_plural_name"},
          args : {[api_version |-> "v1", kind |-> "Pod"]}]
    \cup [fn : {"can_i"}, args : SubjectAccessReviews]

\* What Kubernetes answers a direct call.
DirectOutcomes == {"rev1", "NotFound"}

\* get_resource, get_resource_plural_name or can_i of the capability, run by
\* caller p. The caller keeps the reply, whether Kubernetes was queried for
\* it at the time of the call, and the Api a get was issued on.
DirectCall(p) ==
    /\ pc[p] = "idle"
    /\ \E c \in DirectCalls, discovery \in {"Ok", "ApiError"},
          upstream \in DirectOutcomes :
         LET inner == CASE c.fn = "get_resource" ->
                             GetResource(TRUE, c.args, discovery, upstream)
                        [] c.fn = "get_resource_plural_name" ->
                             LET r == GetResourcePluralName(TRUE, c.args, discovery)
                             IN [result |-> r.result, cache |-> r.cache,
                                 upstream |-> r.discovered, api |-> None]
                        [] c.fn = "can_i" ->
                             [api |-> None] @@ CanI(TRUE, c.args, upstream)
         IN /\ call' = [call EXCEPT ![p] = c]
            /\ kube_resources' = inner.cache
            /\ pc' = [pc EXCEPT ![p] = "done"]
            /\ ret' = [ret EXCEPT ![p] =
                         inner.result @@ [queried |-> inner.upstream,
                                          api |-> inner.api]]
    /\ UNCHANGED <<memoVars, reflectorVars, notKubeVars>>

WatchEventMutNoStamp(id) ==
    /\ id \in DOMAIN reflectors
    /\ \E store \in Stores \ {reflectors[id].store} :
         reflectors' = [reflectors EXCEPT ![id].store = store]
    /\ UNCHANGED <<kube_resources, memoVars, now, pc, call, ret, notKubeVars>>

\* The watch task of a reflector applies an event and stamps the instant.
WatchEvent(id) ==
    /\ id \in DOMAIN reflectors
    /\ \E store \in Stores :
         reflectors' = [reflectors EXCEPT ![id].last_change_seen_at = now,
                                          ![id].store = store]
    /\ UNCHANGED <<kube_resources, memoVars, now, pc, call, ret, notKubeVars>>

\* Time passes.
Advance ==
    /\ now < MaxInstant
    /\ now' = now + 1
    /\ UNCHANGED <<kube_resources, memoVars, reflectors, pc, call, ret, notKubeVars>>

NextReflector ==
    \/ \E p \in Callers : ListCall(p)
    \/ \E p \in Callers : DirectCall(p)
    \/ \E p \in Callers : KubeLookup(p)
    \/ \E p \in Callers : KubeDiscover(p)
    \/ \E p \in Callers : ReflectorLookup(p)
    \/ \E p \in Callers : ReflectorCreate(p)
    \/ \E p \in Callers : HasChangedCheck(p)
    \/ \E id \in DOMAIN reflectors : WatchEvent(id)
    \/ Advance

(***************************************************************************)
(* Claims about the reflectors.                                            *)
(***************************************************************************)
\* C5: has_list_resources_all_result_changed_since_instant(resource,
\* selectors, since) returns true iff no reflector exists for the id of
\* (resource, no namespace, label selector, field selector) or that
\* reflector's last-change timestamp is strictly greater than since; an
\* equal timestamp gives false.
C5_ChangedSinceIffNewerOrMissing ==
    [][\A p \in Callers :
          (pc[p] = "check" /\ pc'[p] = "done") =>
             LET id == <<call[p].api_version, call[p].kind, None,
                         call[p].selectors[1], call[p].selectors[2]>>
             IN /\ ret'[p].tag = "Ok"
                /\ ret'[p].value <=>
                      \/ id \notin DOMAIN reflectors
                      \/ reflectors[id].last_change_seen_at > call[p].since
                /\ (id \in DOMAIN reflectors
                    /\ reflectors[id].last_change_seen_at = call[p].since)
                      => ret'[p].value = FALSE]_vars

\* C11: Reflector::create_and_run is invoked at most once per reflector id
\* under any interleaving of list requests, and the entry of an id in the
\* reflector map is never replaced or removed.
C11_ReflectorCreatedOncePerId ==
    [][\A id \in DOMAIN reflectors :
          /\ id \in DOMAIN reflectors'
          /\ reflectors'[id].instance = reflectors[id].instance
          /\ reflectors[id].instance = 1]_vars

\* C13: an entry of the discovery cache is never removed; a call that
\* starts when its (api_version, kind) has an entry gets that entry without
\* a discovery query; a failed discovery (API error, kind not found,
\* api_version without group/version separator) leaves the cache unchanged.
C13_DiscoveryCacheNeverInvalidated ==
    [][/\ \A avk \in DOMAIN kube_resources :
             avk \in DOMAIN kube_resources' /\ kube_resources'[avk] = kube_resources[avk]
       /\ \A p \in Callers :
             /\ (/\ pc[p] = "lookup"
                 /\ ApiVersionKind(call[p].api_version, call[p].kind)
                       \in DOMAIN kube_resources
                 /\ pc'[p] # pc[p]) =>
                   /\ pc'[p] # "discover"
                   /\ kube_resources' = kube_resources
                   /\ call'[p] # call[p] =>
                         /\ ~call'[p].queried
                         /\ call'[p].resource =
                               kube_resources[ApiVersionKind(call[p].api_version,
                                                             call[p].kind)]
             /\ (pc[p] = "discover" /\ pc'[p] = "done" /\ ret'[p].tag = "Err"
                 /\ ret'[p].error \in {"error finding resource", "Cannot find resource",
                                       "cannot determine group and version"}) =>
                   kube_resources' = kube_resources]_vars

\* C13 witness: a call has been given the cached entry of its (api_version,
\* kind) without a discovery query.
C13_Witness ==
    \E p \in Callers :
        /\ "resource" \in DOMAIN call[p]
        /\ ~call[p].queried
        /\ call[p].resource =
              kube_resources[ApiVersionKind(call[p].api_version, call[p].kind)]

\* C14: list_resources_all and list_resources_by_namespace return an
\* envelope with the requested api_version, the requested kind followed by
\* "List", and as items the contents the reflector's store has at the one
\* instant of the read, never a mix of contents before and after an event.
C14_ListEnvelopeAndSnapshot ==
    [][\A p \in Callers :
          (pc[p] \in {"reader", "create"} /\ pc'[p] = "done" /\ ret'[p].tag = "Ok") =>
             /\ ret'[p].value.api_version = call[p].api_version
             /\ ret'[p].value.kind = call[p].kind \o "List"
             /\ CallReflectorId(call[p]) \in DOMAIN reflectors'
             /\ ret'[p].value.items = reflectors'[CallReflectorId(call[p])].store
             /\ ret'[p].value.items \in Stores]_vars

\* C14 witness: a list call returned a PodList with both objects after a
\* watch event changed the store of its reflector.
C14_Witness ==
    \E p, q \in Callers :
        /\ p # q
        /\ pc[p] = "done" /\ pc[q] = "done"
        /\ call[p].fn = "list_resources_all" /\ call[q] = call[p]
        /\ ret[p].tag = "Ok" /\ ret[q].tag = "Ok"
        /\ ret[p].value.items = {"kube-dns"}
        /\ ret[q].value = [api_version |-> "v1", kind |-> "PodList",
                           items |-> {"kube-dns", "metrics-server"}]

\* A step of the watch task of reflector id (no caller moves, the reflector
\* stays in the map).
IsWatchEvent(id) ==
    /\ id \in DOMAIN reflectors
    /\ pc' = pc
    /\ now' = now
    /\ id \in DOMAIN reflectors'
    /\ reflectors'[id] # reflectors[id]

\* The parts of C15 that do not depend on whether a reflector exists: an
\* event stamped after t0 makes the answer for t0 true, the timestamp of a
\* reflector never decreases, and a true answer about an existing reflector
\* stays true.
C15_EventAndMonotonicity ==
    \A id \in DOMAIN reflectors :
        /\ id \in DOMAIN reflectors'
        /\ reflectors'[id].last_change_seen_at >= reflectors[id].last_change_seen_at
        /\ \A t0 \in 0..MaxInstant :
              /\ (IsWatchEvent(id) /\ now > t0)
                    => HaveReflectorResourcesChangedSince(id, t0)'
              /\ HaveReflectorResourcesChangedSince(id, t0)
                    => HaveReflectorResourcesChangedSince(id, t0)'

C27_WasCachedMeansNoUpstreamQuery ==
    \A p \in Callers :
        (pc[p] = "done" /\ call[p] \in DirectCalls /\ ret[p].tag = "Ok") =>
           /\ call[p].fn \in {"get_resource", "can_i"} => ~ret[p].was_cached
           /\ call[p].fn = "get_resource_plural_name" => ret[p].was_cached
           /\ ret[p].was_cached <=> ~ret[p].queried

\* C30: list_resources_by_namespace for a cluster-wide resource returns an
\* error, creates no reflector and leaves the reflector map unchanged;
\* get_resource for a namespaced resource without a namespace returns an
\* error without issuing a Kubernetes get; for a cluster-wide resource a
\* supplied namespace is ignored: the get is issued on the cluster-wide Api.
C30_ScopeMismatchErrors ==
    [][\A p \in Callers :
          LET c == call'[p]
              resource == CHOOSE r \in ClusterResources :
                              r.api_version = c.api_version /\ r.kind = c.kind
              target == CHOOSE r \in ClusterResources :
                            r.api_version = c.args.api_version /\ r.kind = c.args.kind
          IN /\ (pc[p] # pc'[p] /\ "kind" \in DOMAIN c
                   /\ c.fn = "list_resources_by_namespace"
                   /\ ~resource.namespaced) =>
                   /\ pc'[p] \in {"lookup", "discover", "done"}
                   /\ pc'[p] = "done" => ret'[p].tag = "Err"
                   /\ pc[p] = "lookup" /\ pc'[p] = "done" =>
                          ret'[p] = KubeErr("resource is cluster wide")
                   /\ reflectors' = reflectors
                   /\ ComputeId(resource, Some(c.namespace), c.selectors[1],
                                c.selectors[2]) \notin DOMAIN reflectors'
             /\ (pc[p] = "idle" /\ pc'[p] = "done" /\ c.fn = "get_resource") =>
                   /\ (target.namespaced /\ c.args.namespace = None) =>
                         /\ ret'[p].tag = "Err"
                         /\ ~ret'[p].queried
                         /\ ret'[p].api = None
                         /\ target \in {kube_resources'[a] : a \in DOMAIN kube_resources'} =>
                               ret'[p].error = "namespaced, but no namespace was provided"
                   /\ (~target.namespaced /\ ret'[p].queried) =>
                         ret'[p].api = Some([scope |-> "all", plural |-> target.plural])
                   /\ reflectors' = reflectors]_vars

\* C30 witness: one caller asked list_resources_by_namespace for the
\* cluster-wide Namespace kind and got the error while the reflector map
\* stayed empty; another asked get_resource for a Pod without a namespace
\* and got the error although the Pod kind was resolved, with no get issued.
C30_Witness ==
    \E p, q \in Callers :
        /\ pc[p] = "done" /\ pc[q] = "done"
        /\ call[p].fn = "list_resources_by_namespace"
        /\ call[p].kind = "Namespace"
        /\ ret[p] = KubeErr("resource is cluster wide")
        /\ reflectors = <<>>
        /\ call[q].fn = "get_resource"
        /\ call[q].args.kind = "Pod" /\ call[q].args.namespace = None
        /\ ret[q].tag = "Err"
        /\ ret[q].error = "namespaced, but no namespace was provided"
        /\ ~ret[q].queried

\* C26: has_list_resources_all_result_changed_since_instant never creates
\* a reflector and leaves the reflector map unchanged; a reflector without
\* namespace enters the map only when a list_resources_all call with the
\* same resource and selectors creates it, and while it is not there every
\* change-detection call for it returns true, for any since and however
\* often it is repeated; a reflector that list_resources_by_namespace
\* created for the same resource does not make the answer false.
C26_ChangeDetectionCreatesNothing ==
    [][/\ \A p \in Callers :
            /\ (pc[p] # pc'[p] /\ "kind" \in DOMAIN call'[p]
                  /\ call'[p].fn = "has_list_resources_all_result_changed_since_instant") =>
                  /\ reflectors' = reflectors
                  /\ pc'[p] # "reader" /\ pc'[p] # "create"
            /\ (pc[p] = "check" /\ pc'[p] = "done"
                  /\ CheckedId(call[p]) \notin DOMAIN reflectors) =>
                  /\ ret'[p] = [tag |-> "Ok", value |-> TRUE]
                  /\ \A since \in 0..MaxInstant :
                        HaveReflectorResourcesChangedSince(CheckedId(call[p]), since)
       /\ \A id \in DOMAIN reflectors' \ DOMAIN reflectors :
            id[3] = None =>
               \E p \in Callers :
                  /\ pc[p] = "create" /\ pc'[p] = "done"
                  /\ call[p].fn = "list_resources_all"
                  /\ CallReflectorId(call[p]) = id]_vars

\* C26 witness: list_resources_by_namespace has created the reflector of
\* v1/Pod in namespace prod, no list_resources_all did, time has passed the
\* instant asked about, and the change-detection call for v1/Pod returned
\* true with the map as it was.
C26_Witness ==
    \E p, q \in Callers :
        /\ pc[p] = "done" /\ pc[q] = "done"
        /\ call[p].fn = "list_resources_by_namespace"
        /\ call[p].kind = "Pod"
        /\ ret[p].tag = "Ok"
        /\ call[q].fn = "has_list_resources_all_result_changed_since_instant"
        /\ call[q].kind = "Pod"
        /\ ret[q] = [tag |-> "Ok", value |-> TRUE]
        /\ DOMAIN reflectors = {<<"v1", "Pod", Some("prod"), None, None>>}
        /\ reflectors[<<"v1", "Pod", Some("prod"), None, None>>].last_change_seen_at
              < call[q].since

\* C5 witness: the call returned false for a since equal to the timestamp
\* of the existing reflector of its query.
C5_Witness ==
    \E p \in Callers :
        /\ pc[p] = "done"
        /\ call[p].fn = "has_list_resources_all_result_changed_since_instant"
        /\ ret[p] = [tag |-> "Ok", value |-> FALSE]
        /\ LET id == <<call[p].api_version, call[p].kind, None,
                        call[p].selectors[1], call[p].selectors[2]>>
           IN /\ id \in DOMAIN reflectors
              /\ reflectors[id].last_change_seen_at = call[p].since

(***************************************************************************)
(*        THE CALLBACK CHANNEL: GUESTS, BUS AND ROUTER                     *)
(***************************************************************************)
NumGuests == 2      \* guests building a snapshot concurrently
BusCapacity == 1    \* mpsc::channel(capacity)

Guests == 1..NumGuests

\* The functions that post through make_request_via_callback_channel;
\* get_plural_names loops as get_allowed_resources does.
GuestOps ==
    {"get_allowed_resources", "have_allowed_resources_changed_since_instant"}

\* The values of allowed_resources, each in the iteration order of its
\* BTreeSet<ContextAwareResource>.
AllowedResources ==
    LET namespace == [api_version |-> "v1", kind |-> "Namespace"]
        pod == [api_version |-> "v1", kind |-> "Pod"]
    IN {<<>>, <<pod>>, <<namespace, pod>>}

\* The instants a guest may pass as `since`.
SinceInstants == {1, 2}

\* The arguments of a call besides allowed_resources: `since` for the
\* change check, nothing for the other functions.
GuestArgs(op) ==
    IF op = "have_allowed_resources_changed_since_instant"
    THEN {Some(since) : since \in SinceInstants}
    ELSE {None}

RequestTypeMutSinceZero(op, resource, since) ==
    IF op = "get_allowed_resources"
    THEN [type |-> "KubernetesListResourceAll",
          api_version |-> resource.api_version, kind |-> resource.kind,
          label_selector |-> None, field_selector |-> None]
    ELSE [type |-> "HasKubernetesListResourceAllResultChangedSinceInstant",
          api_version |-> resource.api_version, kind |-> resource.kind,
          label_selector |-> None, field_selector |-> None,
          since |-> 0]

\* The CallbackRequestType get_all_resources_by_type and
\* has_resource_changed_since build for a resource.
RequestType(op, resource, since) ==
    IF op = "get_allowed_resources"
    THEN [type |-> "KubernetesListResourceAll",
          api_version |-> resource.api_version, kind |-> resource.kind,
          label_selector |-> None, field_selector |-> None]
    ELSE [type |-> "HasKubernetesListResourceAllResultChangedSinceInstant",
          api_version |-> resource.api_version, kind |-> resource.kind,
          label_selector |-> None, field_selector |-> None,
          since |-> Unwrap(since)]

\* The request the guest posts for its i-th allowed resource.
GuestRequest(g, i) == RequestType(g.op, g.allowed_resources[i], g.since)

KubeResourcesMutDropsFirst(allowed_resources, replies) ==
    [r \in {allowed_resources[j] : j \in 2..Len(replies)} |->
        replies[CHOOSE j \in 1..Len(replies) : allowed_resources[j] = r].value]

\* kube_resources of get_allowed_resources: each resource inserted with
\* the list parsed from the reply to its request.
KubeResources(allowed_resources, replies) ==
    [r \in {allowed_resources[j] : j \in 1..Len(replies)} |->
        replies[CHOOSE j \in 1..Len(replies) : allowed_resources[j] = r].value]

\* The payloads a capability answers a request with; "malformed" is a
\* payload that is not the JSON the caller expects.
Bodies(type) ==
    CASE type = "KubernetesListResourceAll" -> {"list", "malformed"}
      [] type = "HasKubernetesListResourceAllResultChangedSinceInstant" ->
            {"true", "false", "malformed"}
      [] OTHER -> {"name", "malformed"}

\* serde_json::from_slice of a response payload into what op expects.
FromSlice(op, payload) ==
    IF payload.body = "malformed"
    THEN [tag |-> "Err",
          error |-> CASE op = "get_allowed_resources" -> "CallbackConvertList"
                      [] op = "have_allowed_resources_changed_since_instant" ->
                            "CallbackConvertBool"
                      [] OTHER -> "CallbackGetPluralName"]
    ELSE [tag |-> "Ok", value |-> payload]

TrySendMutUnbounded(queue, open, req) ==
    IF ~open THEN [tag |-> "Err", error |-> "channel closed", queue |-> queue]
    ELSE [tag |-> "Ok", queue |-> Append(queue, req)]

\* mpsc::Sender::try_send
TrySend(queue, open, req) ==
    IF ~open THEN [tag |-> "Err", error |-> "channel closed", queue |-> queue]
    ELSE IF Len(queue) >= BusCapacity
    THEN [tag |-> "Err", error |-> "no available capacity", queue |-> queue]
    ELSE [tag |-> "Ok", queue |-> Append(queue, req)]

BlockingRecvMutSwapped(channel) ==
    IF channel.state = "dropped" THEN [tag |-> "Err", error |-> "CallbackRequest"]
    ELSE IF channel.msg.tag = "Ok" THEN channel.msg
    ELSE [tag |-> "Err", error |-> "CallbackResponse"]

\* rx.blocking_recv() and the match on it, for a channel that holds a
\* message or whose sender was dropped.
BlockingRecv(channel) ==
    IF channel.state = "dropped" THEN [tag |-> "Err", error |-> "CallbackResponse"]
    ELSE IF channel.msg.tag = "Ok" THEN channel.msg
    ELSE [tag |-> "Err", error |-> "CallbackRequest"]

AfterSendMutPipelined(g) ==
    IF g.i < g.n THEN [g EXCEPT !.pc = "send"] ELSE [g EXCEPT !.pc = "recv"]

\* make_request_via_callback_channel after a successful try_send: the
\* guest blocks on the response channel.
AfterSend(g) == [g EXCEPT !.pc = "recv"]

BusIdle ==
    /\ bus = <<>>
    /\ bus_open = FALSE
    /\ handlers = {}
    /\ guest = <<>>
    /\ reply = <<>>

BusInit ==
    /\ bus = <<>>
    /\ bus_open = TRUE
    /\ handlers = {}
    /\ guest = [p \in Guests |-> [pc |-> "idle"]]
    /\ reply = [p \in Guests |-> [state |-> "none"]]

\* The guest's function returns r: its locals are gone, the caller keeps
\* the arguments and the result.
Finish(g, r) ==
    [pc |-> "done", op |-> g.op, allowed_resources |-> g.allowed_resources,
     result |-> r]

\* A guest calls one of the functions with its allowed_resources.
GuestCall(p) ==
    /\ guest[p].pc = "idle"
    /\ \E op \in GuestOps, allowed_resources \in AllowedResources :
       \E since \in GuestArgs(op) :
         LET g == [pc |-> "send", op |-> op, allowed_resources |-> allowed_resources,
                   since |-> since,
                   n |-> Len(allowed_resources), i |-> 1,
                   posted |-> <<>>, replies |-> <<>>]
         IN guest' = [guest EXCEPT ![p] =
                        IF allowed_resources # <<>> THEN g
                        ELSE Finish(g, [tag |-> "Ok",
                                        value |-> IF op = "have_allowed_resources_changed_since_instant"
                                                  THEN FALSE
                                                  ELSE KubeResources(<<>>, <<>>)])]
    /\ UNCHANGED <<bus, bus_open, handlers, reply, notBusVars>>

\* make_request_via_callback_channel: the response channel is created and
\* the request is handed to try_send.
GuestSend(p) ==
    /\ guest[p].pc = "send"
    /\ LET g == guest[p]
           req == [request |-> GuestRequest(g, g.i), response_channel |-> p]
           sent == TrySend(bus, bus_open, req)
       IN /\ bus' = sent.queue
          /\ IF sent.tag = "Ok"
             THEN /\ guest' = [guest EXCEPT ![p] =
                                 AfterSend([g EXCEPT !.posted = Append(@, g.i)])]
                  /\ reply' = [reply EXCEPT ![p] = [state |-> "open"]]
             ELSE /\ guest' = [guest EXCEPT ![p] =
                                 Finish(g, [tag |-> "Err", error |-> "CallbackSend",
                                            message |-> sent.error])]
                  /\ reply' = [reply EXCEPT ![p] = [state |-> "none"]]
    /\ UNCHANGED <<bus_open, handlers, notBusVars>>

\* make_request_via_callback_channel: blocking_recv returns, and the
\* calling function goes on with its loop over the allowed resources.
GuestRecv(p) ==
    /\ guest[p].pc = "recv"
    /\ reply[p].state \in {"sent", "dropped"}
    /\ LET g == guest[p]
           response == BlockingRecv(reply[p])
           parsed == IF response.tag = "Ok" THEN FromSlice(g.op, response.value)
                     ELSE response
           replies == Append(g.replies, parsed)
           changed == /\ g.op = "have_allowed_resources_changed_since_instant"
                      /\ parsed.tag = "Ok"
                      /\ parsed.value.body = "true"
       IN guest' = [guest EXCEPT ![p] =
            IF parsed.tag = "Err" THEN Finish([g EXCEPT !.replies = replies], parsed)
            ELSE IF changed
            THEN Finish([g EXCEPT !.replies = replies], [tag |-> "Ok", value |-> TRUE])
            ELSE IF g.i = g.n
            THEN Finish([g EXCEPT !.replies = replies],
                        [tag |-> "Ok",
                         value |-> IF g.op = "have_allowed_resources_changed_since_instant"
                                   THEN FALSE
                                   ELSE KubeResources(g.allowed_resources, replies)])
            ELSE [g EXCEPT !.replies = replies, !.i = g.i + 1, !.pc = "send"]]
    /\ reply' = [reply EXCEPT ![p] = [state |-> "none"]]
    /\ UNCHANGED <<bus, bus_open, handlers, notBusVars>>

\* The router receives the next request and spawns its handler.
RouterRecv ==
    /\ bus_open
    /\ bus # <<>>
    /\ handlers' = handlers \cup {Head(bus)}
    /\ bus' = Tail(bus)
    /\ UNCHANGED <<bus_open, guest, reply, notBusVars>>

\* A handler sends the capability's answer, or its error, on the
\* request's response channel.
HandlerReply(req) ==
    /\ req \in handlers
    /\ handlers' = handlers \ {req}
    /\ \E msg \in {[tag |-> "Ok", value |-> [request |-> req.request, body |-> b]] :
                      b \in Bodies(req.request.type)}
                  \cup {[tag |-> "Err", error |-> "capability error"]} :
         reply' = [reply EXCEPT ![req.response_channel] = [state |-> "sent", msg |-> msg]]
    /\ UNCHANGED <<bus, bus_open, guest, notBusVars>>

\* A handler ends without sending: the response channel is dropped.
HandlerDrop(req) ==
    /\ req \in handlers
    /\ handlers' = handlers \ {req}
    /\ reply' = [reply EXCEPT ![req.response_channel] = [state |-> "dropped"]]
    /\ UNCHANGED <<bus, bus_open, guest, notBusVars>>

\* The router shuts down: the receiver is dropped, and with it the
\* requests still buffered and their response channels.
RouterShutdown ==
    /\ bus_open
    /\ bus_open' = FALSE
    /\ bus' = <<>>
    /\ reply' = [p \in Guests |->
                   IF \E k \in 1..Len(bus) : bus[k].response_channel = p
                   THEN [state |-> "dropped"] ELSE reply[p]]
    /\ UNCHANGED <<handlers, guest, notBusVars>>

NextBus ==
    \/ \E p \in Guests : GuestCall(p)
    \/ \E p \in Guests : GuestSend(p)
    \/ \E p \in Guests : GuestRecv(p)
    \/ RouterRecv
    \/ \E req \in handlers : HandlerReply(req)
    \/ \E req \in handlers : HandlerDrop(req)
    \/ RouterShutdown

(***************************************************************************)
(* Claims about the callback channel.                                      *)
(***************************************************************************)
\* The call of guest p failed because try_send found the bus full.
RejectedBecauseFull(g) ==
    /\ g.pc = "done"
    /\ g.result.tag = "Err"
    /\ g.result.error = "CallbackSend"
    /\ g.result.message = "no available capacity"

\* C7 as stated: a request posted through make_request_via_callback_channel
\* while the bus is full waits for capacity and is then delivered; it is
\* never rejected or dropped because the bus was full.
C7_NeverRejectedBecauseFull ==
    \A p \in Guests : ~RejectedBecauseFull(guest[p])

\* C7 amended: the bus never holds more than its capacity, and a post does
\* not wait: with free capacity on an open bus the request is put on the
\* bus and the guest blocks on the reply, and with a full (or closed) bus
\* the call fails at once with CallbackSend and the bus is left as it was.
C7_FullBusRejectsAtOnce ==
    [][/\ Len(bus') <= BusCapacity
       /\ \A p \in Guests :
            (guest[p].pc = "send" /\ guest'[p] # guest[p]) =>
               IF bus_open /\ Len(bus) < BusCapacity
               THEN /\ Len(bus') = Len(bus) + 1
                    /\ bus'[Len(bus')].response_channel = p
                    /\ guest'[p].pc = "recv"
               ELSE /\ bus' = bus
                    /\ guest'[p].pc = "done"
                    /\ guest'[p].result =
                          [tag |-> "Err", error |-> "CallbackSend",
                           message |-> IF bus_open THEN "no available capacity"
                                       ELSE "channel closed"]]_vars

\* C7 witness: a call was rejected while the open bus is full.
C7_Witness ==
    /\ bus_open
    /\ Len(bus) = BusCapacity
    /\ \E p \in Guests : RejectedBecauseFull(guest[p])

\* The requests of guest p that are on the bus or with a handler.
Outstanding(p) ==
    Cardinality({k \in 1..Len(bus) : bus[k].response_channel = p})
    + Cardinality({req \in handlers : req.response_channel = p})

\* C8: a guest's requests go on the bus strictly one at a time, the next
\* one only after the reply or failure of the previous one was received, so
\* at most one is outstanding, and the replies the guest observes are, in
\* order, the replies to its requests.
C8_RepliesInRequestOrder ==
    \A p \in Guests :
       LET g == guest[p] IN
       /\ Outstanding(p) <= 1
       /\ g.pc \in {"send", "recv"} =>
             /\ g.posted = [j \in 1..(IF g.pc = "send" THEN g.i - 1 ELSE g.i) |-> j]
             /\ Len(g.replies) = g.i - 1
             /\ \A j \in 1..Len(g.replies) :
                   /\ g.replies[j].tag = "Ok"
                   /\ g.replies[j].value.request = GuestRequest(g, j)
             /\ g.pc = "send" => Outstanding(p) = 0 /\ reply[p].state = "none"
             /\ (g.pc = "recv" /\ reply[p].state = "sent"
                 /\ reply[p].msg.tag = "Ok") =>
                   reply[p].msg.value.request = GuestRequest(g, g.i)
       /\ (g.pc = "done" /\ g.result.tag = "Ok" /\ g.op = "get_allowed_resources") =>
             /\ \A j \in 1..Len(g.allowed_resources) :
                   g.result.value[g.allowed_resources[j]].request =
                      RequestType(g.op, g.allowed_resources[j], None)

\* C8 witness: a guest got the replies to two requests, in order, while
\* a request of another guest is outstanding.
C8_Witness ==
    \E p, q \in Guests :
        /\ p # q
        /\ guest[p].pc = "done"
        /\ guest[p].op = "get_allowed_resources"
        /\ guest[p].result.tag = "Ok"
        /\ Cardinality(DOMAIN guest[p].result.value) = 2
        /\ guest[q].pc = "recv"
        /\ Outstanding(q) = 1

\* C21: get_allowed_resources posts one KubernetesListResourceAll request
\* per declared resource, in the order of the set, with the api_version and
\* kind of the resource and no selector; on success the map has exactly the
\* declared resources as keys, each with the list replied to its request;
\* at the first failure it returns that error, posts nothing more and
\* returns no map.
C21_OneListRequestPerResource ==
    [][\A p \in Guests :
          LET g == guest[p] IN
          (g.pc \in {"send", "recv"} /\ g.op = "get_allowed_resources"
             /\ guest'[p] # g) =>
             /\ (g.pc = "send" /\ guest'[p].pc = "recv") =>
                   /\ g.posted = [j \in 1..(g.i - 1) |-> j]
                   /\ bus' = Append(bus,
                         [request |-> [type |-> "KubernetesListResourceAll",
                                       api_version |-> g.allowed_resources[g.i].api_version,
                                       kind |-> g.allowed_resources[g.i].kind,
                                       label_selector |-> None,
                                       field_selector |-> None],
                          response_channel |-> p])
             /\ g.pc = "recv" =>
                   /\ bus' = bus
                   /\ (reply[p].state = "sent" /\ reply[p].msg.tag = "Ok"
                         /\ reply[p].msg.value.body = "list") =>
                         IF g.i < g.n
                         THEN guest'[p].pc = "send" /\ guest'[p].i = g.i + 1
                         ELSE /\ guest'[p].pc = "done"
                              /\ g.posted = [j \in 1..g.n |-> j]
                              /\ guest'[p].result.tag = "Ok"
                              /\ DOMAIN guest'[p].result.value =
                                    {g.allowed_resources[j] : j \in 1..g.n}
                              /\ \A j \in 1..g.n :
                                    guest'[p].result.value[g.allowed_resources[j]] =
                                       IF j < g.n THEN g.replies[j].value
                                       ELSE reply[p].msg.value
                   /\ ~(reply[p].state = "sent" /\ reply[p].msg.tag = "Ok"
                          /\ reply[p].msg.value.body = "list") =>
                         /\ guest'[p].pc = "done"
                         /\ guest'[p].result.tag = "Err"
                         /\ DOMAIN guest'[p].result \subseteq {"tag", "error"}]_vars

\* C21 witness: a guest got the map of its two declared resources, and
\* another guest's call ended with the error of its second request.
C21_Witness ==
    \E p, q \in Guests :
        /\ guest[p].pc = "done" /\ guest[q].pc = "done"
        /\ guest[p].op = "get_allowed_resources"
        /\ guest[q].op = "get_allowed_resources"
        /\ Len(guest[p].allowed_resources) = 2
        /\ Len(guest[q].allowed_resources) = 2
        /\ guest[p].result.tag = "Ok"
        /\ DOMAIN guest[p].result.value =
              {[api_version |-> "v1", kind |-> "Namespace"],
               [api_version |-> "v1", kind |-> "Pod"]}
        /\ guest[q].result = [tag |-> "Err", error |-> "CallbackConvertList"]

\* C22: have_allowed_resources_changed_since_instant asks for the declared
\* resources in set order, without selectors and with the given instant;
\* it returns true at the first true reply, false for an empty set or when
\* every reply was false, the error at the first failure, and posts
\* nothing after the first true reply or the first error.
C22_ChangedIffSomeReplyTrue ==
    [][\A p \in Guests :
          LET g == guest[p] IN
          /\ (g.pc = "idle" /\ guest'[p].pc = "done"
                /\ guest'[p].op = "have_allowed_resources_changed_since_instant") =>
                guest'[p].result = [tag |-> "Ok", value |-> FALSE]
          /\ (g.pc \in {"send", "recv"} /\ guest'[p] # g
                /\ g.op = "have_allowed_resources_changed_since_instant") =>
                /\ \A j \in 1..Len(g.replies) :
                      g.replies[j].tag = "Ok" /\ g.replies[j].value.body = "false"
                /\ (g.pc = "send" /\ guest'[p].pc = "recv") =>
                      /\ g.posted = [j \in 1..(g.i - 1) |-> j]
                      /\ bus' = Append(bus,
                            [request |->
                               [type |-> "HasKubernetesListResourceAllResultChangedSinceInstant",
                                api_version |-> g.allowed_resources[g.i].api_version,
                                kind |-> g.allowed_resources[g.i].kind,
                                label_selector |-> None,
                                field_selector |-> None,
                                since |-> g.since[1]],
                             response_channel |-> p])
                /\ g.pc = "recv" =>
                      /\ bus' = bus
                      /\ IF reply[p].state = "sent" /\ reply[p].msg.tag = "Ok"
                            /\ reply[p].msg.value.body \in {"true", "false"}
                         THEN IF reply[p].msg.value.body = "true"
                              THEN /\ guest'[p].pc = "done"
                                   /\ guest'[p].result = [tag |-> "Ok", value |-> TRUE]
                              ELSE IF g.i < g.n
                              THEN guest'[p].pc = "send" /\ guest'[p].i = g.i + 1
                              ELSE /\ guest'[p].pc = "done"
                                   /\ guest'[p].result = [tag |-> "Ok", value |-> FALSE]
                         ELSE /\ guest'[p].pc = "done"
                              /\ guest'[p].result.tag = "Err"]_vars

\* C22 witness: of two guests asking about two resources, one was answered
\* true on the first reply and the other false after two false replies.
C22_Witness ==
    \E p, q \in Guests :
        /\ guest[p].pc = "done" /\ guest[q].pc = "done"
        /\ guest[p].op = "have_allowed_resources_changed_since_instant"
        /\ guest[q].op = "have_allowed_resources_changed_since_instant"
        /\ Len(guest[p].allowed_resources) = 2
        /\ Len(guest[q].allowed_resources) = 2
        /\ guest[p].result = [tag |-> "Ok", value |-> TRUE]
        /\ guest[q].result = [tag |-> "Ok", value |-> FALSE]

\* C9: each request has its own response channel, which carries at most
\* one message; a caller whose channel was dropped without a reply (also at
\* router shutdown) can go on and fails with CallbackResponse; an error
\* reply fails the call with CallbackRequest; and no call posts again:
\* exactly one request was put on the bus for every call that waits for or
\* gets a reply.
C9_DroppedChannelAndErrorReply ==
    [][\A p \in Guests :
          /\ \A k1, k2 \in 1..Len(bus) :
                bus[k1].response_channel = bus[k2].response_channel => k1 = k2
          /\ reply[p].state \in {"sent", "dropped"} =>
                reply'[p] = reply[p] \/ reply'[p].state = "none"
          /\ guest[p].pc = "recv" =>
                /\ Len(guest[p].posted) = guest[p].i
                /\ \A j \in 1..guest[p].i : guest[p].posted[j] = j
                /\ reply[p].state = "dropped" => ENABLED GuestRecv(p)
                /\ guest'[p] # guest[p] =>
                      /\ bus' = bus
                      /\ reply[p].state = "dropped" =>
                            /\ guest'[p].pc = "done"
                            /\ guest'[p].result =
                                  [tag |-> "Err", error |-> "CallbackResponse"]
                      /\ (reply[p].state = "sent" /\ reply[p].msg.tag = "Err") =>
                            /\ guest'[p].pc = "done"
                            /\ guest'[p].result =
                                  [tag |-> "Err", error |-> "CallbackRequest"]]_vars

\* C9 witness: after the router shut down, a call has failed with
\* CallbackResponse and another with CallbackRequest.
C9_Witness ==
    /\ ~bus_open
    /\ \E p, q \in Guests :
          /\ guest[p].pc = "done"
          /\ guest[p].result = [tag |-> "Err", error |-> "CallbackResponse"]
          /\ guest[q].pc = "done"
          /\ guest[q].result = [tag |-> "Err", error |-> "CallbackRequest"]

(***************************************************************************)
(*        KWCTL: THE RECORD/REPLAY PROXY OF THE HOST CAPABILITIES          *)
(***************************************************************************)
\* HostCapabilitiesMode: Direct, or Proxy(ProxyMode)
HostCapabilitiesModes == {"Direct", "Record", "Replay"}

\* Host-call requests a policy makes during a run.
ProxyRequests ==
    {[type |-> "OciManifest", arg |-> "registry://r/img:v1"],
     [type |-> "OciManifest", arg |-> "registry://r/img:v2"],
     [type |-> "DnsLookupHost", arg |-> "example.org"]}

\* What a real capability may answer; the answer to the same request can
\* differ from one time to the next.
BackendResponses ==
    {[tag |-> "Ok", payload |-> "digest-a"], [tag |-> "Ok", payload |-> "digest-b"],
     [tag |-> "Err", error |-> "registry unreachable"]}

\* The canonical hash of a request, as its canonical serialisation.
RequestHash(request) == request.type \o "(" \o request.arg \o ")"

NewMutAlwaysDirect(mode) == "Direct"

\* CallbackHandler::new: the variant built for cfg.host_capabilities_mode
New(mode) == IF mode = "Direct" THEN "Direct" ELSE "Proxy"

ProxyIdle ==
    /\ host_capabilities_mode = "Direct"
    /\ handler = "none"
    /\ journal = <<>>
    /\ exchange = NotCalled

ProxyInit ==
    /\ host_capabilities_mode \in HostCapabilitiesModes
    /\ handler = "none"
    /\ journal = <<>>
    /\ exchange = NotCalled

\* CallbackHandler::new builds the handler of a run.
CallbackHandlerNew ==
    /\ handler = "none"
    /\ handler' = New(host_capabilities_mode)
    /\ exchange' = NotCalled
    /\ UNCHANGED <<host_capabilities_mode, journal, notProxyVars>>

\* loop_eval of the transparent handler answers a request: the real
\* capability is contacted.
DirectEval ==
    /\ handler = "Direct"
    /\ \E request \in ProxyRequests, response \in BackendResponses :
         exchange' = [mode |-> host_capabilities_mode, request |-> request,
                      response |-> response, forwarded |-> TRUE]
    /\ UNCHANGED <<host_capabilities_mode, handler, journal, notProxyVars>>

\* loop_eval of the proxy in record mode: the request is forwarded to the
\* real capability and the pair is persisted under the request's hash.
RecordEval ==
    /\ handler = "Proxy"
    /\ host_capabilities_mode = "Record"
    /\ \E request \in ProxyRequests, response \in BackendResponses :
         /\ journal' = [h \in DOMAIN journal \cup {RequestHash(request)} |->
                          IF h = RequestHash(request)
                          THEN [request |-> request, response |-> response]
                          ELSE journal[h]]
         /\ exchange' = [mode |-> "Record", request |-> request,
                         response |-> response, forwarded |-> TRUE]
    /\ UNCHANGED <<host_capabilities_mode, handler, notProxyVars>>

\* loop_eval of the proxy in replay mode: the request is answered from
\* the journal, and a request that is not in it is an error.
ReplayEval ==
    /\ handler = "Proxy"
    /\ host_capabilities_mode = "Replay"
    /\ \E request \in ProxyRequests :
         exchange' = [mode |-> "Replay", request |-> request,
                      response |-> IF RequestHash(request) \in DOMAIN journal
                                   THEN journal[RequestHash(request)].response
                                   ELSE [tag |-> "Err", error |-> "cache miss"],
                      forwarded |-> FALSE]
    /\ UNCHANGED <<host_capabilities_mode, handler, journal, notProxyVars>>

\* The run ends; the next run is started with any mode, on the same file.
RunEnds ==
    /\ handler # "none"
    /\ handler' = "none"
    /\ \E mode \in HostCapabilitiesModes : host_capabilities_mode' = mode
    /\ UNCHANGED <<journal, exchange, notProxyVars>>

NextProxy ==
    \/ CallbackHandlerNew
    \/ DirectEval
    \/ RecordEval
    \/ ReplayEval
    \/ RunEnds

(***************************************************************************)
(* Claims about the record/replay proxy.                                   *)
(***************************************************************************)
\* The journal's pair for a request, whatever key it is stored under.
PersistedIn(file, request) ==
    {file[h] : h \in {k \in DOMAIN file : file[k].request = request}}

Persisted(request) == PersistedIn(journal, request)

\* C10: a request answered in record mode is persisted with its response;
\* in replay mode a request of the journal is answered with the persisted
\* response and no real capability is contacted, and a request that is not
\* in the journal fails with a cache miss instead of being forwarded.
C10_RecordReplayRoundTrip ==
    [][/\ (exchange' # exchange /\ exchange' # NotCalled
           /\ exchange'.mode = "Record") =>
             PersistedIn(journal', exchange'.request) =
                {[request |-> exchange'.request, response |-> exchange'.response]}
       /\ (exchange' # exchange /\ host_capabilities_mode = "Replay"
           /\ exchange' # NotCalled) =>
             /\ ~exchange'.forwarded
             /\ journal' = journal
             /\ IF Persisted(exchange'.request) = {}
                THEN exchange'.response = [tag |-> "Err", error |-> "cache miss"]
                ELSE \E pair \in Persisted(exchange'.request) :
                        exchange'.response = pair.response]_vars

\* C10 witness: in replay mode, a recorded request got its recorded answer
\* while another request is not in the journal.
C10_Witness ==
    /\ host_capabilities_mode = "Replay"
    /\ exchange # NotCalled
    /\ exchange.mode = "Replay"
    /\ exchange.response.tag = "Ok"
    /\ Persisted(exchange.request) =
          {[request |-> exchange.request, response |-> exchange.response]}
    /\ \E request \in ProxyRequests : Persisted(request) = {}

(***************************************************************************)
(*                         SPECIFICATIONS                                  *)
(***************************************************************************)
InitVerify == VerifyInputs /\ LoadIdle /\ KubeIdle /\ BusIdle /\ ProxyIdle /\ ChecksumIdle /\ SourcesIdle
SpecVerify == InitVerify /\ [][NextVerify]_vars

InitLoad == LoadInputs /\ VerifyIdle /\ KubeIdle /\ BusIdle /\ ProxyIdle /\ ChecksumIdle /\ SourcesIdle
SpecLoad == InitLoad /\ [][NextLoad]_vars

InitMemo == MemoInit /\ VerifyIdle /\ LoadIdle /\ BusIdle /\ ProxyIdle /\ ChecksumIdle /\ SourcesIdle
SpecMemo == InitMemo /\ [][NextMemo]_vars

InitReflector == ReflectorInit /\ VerifyIdle /\ LoadIdle /\ BusIdle /\ ProxyIdle /\ ChecksumIdle /\ SourcesIdle
SpecReflector == InitReflector /\ [][NextReflector]_vars

InitBus == BusInit /\ VerifyIdle /\ LoadIdle /\ KubeIdle /\ ProxyIdle /\ ChecksumIdle /\ SourcesIdle
SpecBus == InitBus /\ [][NextBus]_vars

InitChecksum == ChecksumInputs /\ VerifyIdle /\ LoadIdle /\ KubeIdle /\ BusIdle /\ ProxyIdle /\ SourcesIdle
SpecChecksum == InitChecksum /\ [][NextChecksum]_vars

InitSources ==
    SourcesInputs /\ VerifyIdle /\ ChecksumIdle /\ LoadIdle /\ KubeIdle /\ BusIdle /\ ProxyIdle
SpecSources == InitSources /\ [][NextSources]_vars

InitProxy == ProxyInit /\ VerifyIdle /\ LoadIdle /\ KubeIdle /\ BusIdle /\ ChecksumIdle /\ SourcesIdle
SpecProxy == InitProxy /\ [][NextProxy]_vars

(***************************************************************************)
(* Claims about the signature verifier.                                    *)
(***************************************************************************)
\* A trusted layer matches a signature constraint: the constraint names the
\* issuer and the subject the layer was signed by.
LayerMatches(signature, layer) ==
    /\ signature.kind = "genericIssuer"
    /\ signature.issuer = layer.issuer
    /\ signature.subject = layer.subject

HasMatchingLayer(signature) == \E l \in trusted_layers : LayerMatches(signature, l)

Verified == verify_result # NotCalled

OnlyAllOf ==
    /\ Verified
    /\ IsSome(verification_config.all_of)
    /\ verification_config.any_of = None

OnlyAnyOf ==
    /\ Verified
    /\ verification_config.all_of = None
    /\ IsSome(verification_config.any_of)

\* C16: a config with both all_of and any_of absent is rejected with the
\* error 'Image verification failed: no signatures to verify', whatever the
\* trusted layers are.
C16_BothAbsentRejected ==
    (Verified /\ verification_config.all_of = None /\ verification_config.any_of = None)
        => verify_result = [tag |-> "Err",
                            msg |-> "Image verification failed: no signatures to verify"]

\* C16 witness: the config of the unit test (both absent, one unrelated
\* trusted layer) has been rejected.
C16_Witness ==
    /\ verification_config = [all_of |-> None, any_of |-> None]
    /\ trusted_layers = {[issuer |-> "github", subject |-> "unrelated"]}
    /\ verify_result.tag = "Err"

\* C1: with all_of = [s1..sk] and any_of absent, verification succeeds iff
\* every si has a matching trusted layer; when it fails the error is the
\* "missing signatures" error and lists exactly the si without a matching
\* layer, in config order.
C1_AllOfIffEveryConstraintMatched ==
    OnlyAllOf =>
        LET all_of == Unwrap(verification_config.all_of)
            unmatched == SelectSeq(all_of, LAMBDA s : ~HasMatchingLayer(s))
        IN /\ verify_result.tag = "Ok" <=>
                  \A i \in 1..Len(all_of) : HasMatchingLayer(all_of[i])
           /\ verify_result.tag # "Ok" =>
                  /\ verify_result.tag = "Err"
                  /\ verify_result.msg = "missing signatures"
                  /\ verify_result.unsatisfied = unmatched

\* C1 witness: two all_of constraints, the first matched and the second not,
\* and the error lists the second only.
C1_Witness ==
    /\ OnlyAllOf
    /\ Len(Unwrap(verification_config.all_of)) = 2
    /\ HasMatchingLayer(Unwrap(verification_config.all_of)[1])
    /\ verify_result.tag = "Err"
    /\ verify_result.unsatisfied = <<Unwrap(verification_config.all_of)[2]>>

\* The number of constraints of a list that have a matching trusted layer.
NumMatched(signatures) ==
    Cardinality({i \in 1..Len(signatures) : HasMatchingLayer(signatures[i])})

\* C2: with any_of = {minimum_matches: m, signatures: [s1..sk]} and all_of
\* absent, verification succeeds iff at least m of the si have a matching
\* trusted layer; m = 0 always succeeds and m > k always fails.
C2_AnyOfIffQuorum ==
    OnlyAnyOf =>
        LET any_of == Unwrap(verification_config.any_of)
        IN /\ verify_result.tag = "Ok" <=>
                  NumMatched(any_of.signatures) >= any_of.minimum_matches
           /\ any_of.minimum_matches = 0 => verify_result.tag = "Ok"
           /\ any_of.minimum_matches > Len(any_of.signatures) =>
                  verify_result.tag = "Err"

\* C23: a failed any_of check reports needed = minimum_matches and got =
\* the number of any_of constraints with a matching trusted layer, which is
\* less than needed, and lists exactly the unsatisfied any_of constraints
\* in config order; got plus the number of listed constraints is the
\* number of any_of signatures.
C23_AnyOfErrorCountsAndLists ==
    (Verified /\ IsSome(verification_config.any_of)) =>
        LET any_of == Unwrap(verification_config.any_of)
            all_passes == \/ verification_config.all_of = None
                          \/ \A i \in 1..Len(Unwrap(verification_config.all_of)) :
                                HasMatchingLayer(Unwrap(verification_config.all_of)[i])
            fails == all_passes /\ NumMatched(any_of.signatures) < any_of.minimum_matches
        IN /\ fails <=> (verify_result.tag = "Err" /\
                         verify_result.msg = "minimum number of signatures not reached")
           /\ fails =>
                /\ verify_result.needed = any_of.minimum_matches
                /\ verify_result.got = NumMatched(any_of.signatures)
                /\ verify_result.got < verify_result.needed
                /\ verify_result.unsatisfied =
                      SelectSeq(any_of.signatures, LAMBDA sig : ~HasMatchingLayer(sig))
                /\ verify_result.got + Len(verify_result.unsatisfied) =
                      Len(any_of.signatures)

\* C23 witness: the unit test's case: three constraints, two needed, one
\* matched, the two others listed in config order.
C23_Witness ==
    /\ OnlyAnyOf
    /\ Len(Unwrap(verification_config.any_of).signatures) = 3
    /\ verify_result.tag = "Err"
    /\ verify_result.needed = 2
    /\ verify_result.got = 1
    /\ Len(verify_result.unsatisfied) = 2
    /\ verify_result.unsatisfied[1] # verify_result.unsatisfied[2]
    /\ verify_result.unsatisfied[1] = Unwrap(verification_config.any_of).signatures[2]

\* C29: with both all_of and any_of, verification succeeds iff every
\* all_of constraint has a matching trusted layer and at least
\* minimum_matches any_of constraints have one; all_of is evaluated first:
\* with an unsatisfied all_of constraint the error is "missing signatures"
\* with the unsatisfied all_of constraints, whatever any_of gives. A
\* constraint whose verifier cannot be built is unsatisfied in both lists.
C29_BothListsAllOfFirst ==
    (Verified /\ IsSome(verification_config.all_of)
              /\ IsSome(verification_config.any_of)) =>
        LET all_of == Unwrap(verification_config.all_of)
            any_of == Unwrap(verification_config.any_of)
            all_passes == \A i \in 1..Len(all_of) :
                             /\ SignatureVerifier(all_of[i]).ok
                             /\ HasMatchingLayer(all_of[i])
            satisfied == {i \in 1..Len(any_of.signatures) :
                            /\ SignatureVerifier(any_of.signatures[i]).ok
                            /\ HasMatchingLayer(any_of.signatures[i])}
        IN /\ verify_result.tag = "Ok" <=>
                 (all_passes /\ Cardinality(satisfied) >= any_of.minimum_matches)
           /\ ~all_passes =>
                 /\ verify_result.tag = "Err"
                 /\ verify_result.msg = "missing signatures"
                 /\ verify_result.unsatisfied =
                       SelectSeq(all_of, LAMBDA sig : \/ ~SignatureVerifier(sig).ok
                                                      \/ ~HasMatchingLayer(sig))

\* C29 witness: both lists fail (an all_of constraint and the any_of quorum,
\* each with a constraint whose verifier cannot be built) and the error is
\* the one of all_of.
C29_Witness ==
    /\ Verified
    /\ IsSome(verification_config.all_of)
    /\ IsSome(verification_config.any_of)
    /\ \E i \in 1..Len(Unwrap(verification_config.all_of)) :
          ~SignatureVerifier(Unwrap(verification_config.all_of)[i]).ok
    /\ \E i \in 1..Len(Unwrap(verification_config.any_of).signatures) :
          ~SignatureVerifier(Unwrap(verification_config.any_of).signatures[i]).ok
    /\ NumMatched(Unwrap(verification_config.any_of).signatures)
          < Unwrap(verification_config.any_of).minimum_matches
    /\ verify_result.tag = "Err"
    /\ verify_result.msg = "missing signatures"

\* C2 witness: a quorum reached exactly (two matches needed, two found).
C2_Witness ==
    /\ OnlyAnyOf
    /\ Unwrap(verification_config.any_of).minimum_matches = 2
    /\ NumMatched(Unwrap(verification_config.any_of).signatures) = 2
    /\ verify_result.tag = "Ok"

====
